---- MODULE Spec2Model ----
(***************************************************************************)
(* Model of repoman's staged-change engine: the Stage builder, its edit    *)
(* operators (add, modify, delete, move), their composition (join,         *)
(* sequence) and the commit protocol, against a Repository collaborator    *)
(* whose calls are recorded in the order Stage issues them.  The two calls *)
(* that write, Repository.createBranch and Repository.createCommit, are    *)
(* followed down to the HTTP requests they send and to what these do to    *)
(* the branches of the remote.  Spec is a session against a remote that    *)
(* answers every call; SpecFail lets the remote fail a call.               *)
(*                                                                         *)
(* Paths and file contents are sequences of one-character strings, so that *)
(* String.startsWith, concatenation and prefix replacement are computed    *)
(* character by character.  A JavaScript object used as a map (ChangeMap)  *)
(* is a pair of an object identity (ref) and the list of its own keys in   *)
(* insertion order; the Change objects the maps point to live in a heap,   *)
(* because maps cloned with {...changes} share them.                       *)
(***************************************************************************)
EXTENDS Integers, Sequences, FiniteSets, TLC

\* Largest number of change sets one session stages before commit().
MaxOps == 2

\* Largest position, among the Repository calls of one change set, of a call
\* that the remote fails.
MaxGroupCalls == 3

----------------------------------------------------------------------------
\* Enumerations of repository.ts

ObjectTypeBlob == "blob"
ObjectTypeTree == "tree"
ObjectTypeCommit == "commit"

ObjectModeFile == "100644"
ObjectModeExecutable == "100755"
ObjectModeDirectory == "040000"

ChangeTypeModify == "Modify"
ChangeTypeAdd == "Add"
ChangeTypeDelete == "Delete"
ChangeTypeMove == "Move"

----------------------------------------------------------------------------
\* Strings as character sequences

Slash == <<"/">>

\* String.prototype.startsWith
StartsWith(k, prefix) ==
    /\ Len(k) >= Len(prefix)
    /\ SubSeq(k, 1, Len(prefix)) = prefix

\* k.replace(new RegExp("^" + src), dest) for a src made of characters that
\* are not regular-expression metacharacters (letters and "/"): the pattern
\* matches exactly the literal prefix src, once, at position 0.
ReplacePrefix(k, src, dest) ==
    IF StartsWith(k, src)
    THEN dest \o SubSeq(k, Len(src) + 1, Len(k))
    ELSE k

\* LocalFile.pathWithBase: path.join(basePath, path) for relative paths
\* without "." or ".." segments and without a trailing separator.
PathWithBase(basePath, path) == basePath \o Slash \o path

\* The paths the model uses
PathA == <<"a">>
PathAX == <<"a", "/", "x">>
PathAY == <<"a", "/", "y">>
PathABX == <<"a", "b", "/", "x">>
PathB == <<"b">>
PathBX == <<"b", "/", "x">>
PathBY == <<"b", "/", "y">>
PathX == <<"x">>
PathZ == <<"z">>

\* File contents the model uses
ContentHi == <<"h", "i">>
ContentYo == <<"y", "o">>

----------------------------------------------------------------------------
\* sha.ts: the digest of the header "{type} {length}\0" followed by the
\* bytes.  SHA-1 is modelled as an injective function of its input, so the
\* digest is represented by the data it was computed from.
gitSha(type, content) ==
    [type |-> type, length |-> Len(content), bytes |-> content]

\* blobSha hashing the content under the header of a tree
blobShaAsTree(content) == gitSha("tree", content)

blobSha(content) == gitSha("blob", content)

----------------------------------------------------------------------------
\* The digest itself: crypto.createHash("sha1") over the header and the
\* content, in hex.  A 32-bit word is kept as its two 16-bit halves, so that
\* no intermediate value leaves the range of the integers.

\* The printable characters in the order of their codes: those from 32 to
\* 95 and those from 97 to 126
Chars32 ==
    << " ", "!", "\"", "#", "$", "%", "&", "'", "(", ")", "*", "+", ",", "-",
       ".", "/", "0", "1", "2", "3", "4", "5", "6", "7", "8", "9", ":", ";",
       "<", "=", ">", "?", "@", "A", "B", "C", "D", "E", "F", "G", "H", "I",
       "J", "K", "L", "M", "N", "O", "P", "Q", "R", "S", "T", "U", "V", "W",
       "X", "Y", "Z", "[", "\\", "]", "^", "_" >>

Chars97 ==
    << "a", "b", "c", "d", "e", "f", "g", "h", "i", "j", "k", "l", "m", "n",
       "o", "p", "q", "r", "s", "t", "u", "v", "w", "x", "y", "z", "{", "|",
       "}", "~" >>

\* Buffer.from(string): the bytes of a string of printable characters
CharCode(c) ==
    IF \E i \in 1..Len(Chars32) : Chars32[i] = c
    THEN 31 + CHOOSE i \in 1..Len(Chars32) : Chars32[i] = c
    ELSE 96 + CHOOSE i \in 1..Len(Chars97) : Chars97[i] = c

BufferFrom(chars) == [i \in 1..Len(chars) |-> CharCode(chars[i])]

\* The decimal digits of a number, as the template literal formats it
RECURSIVE Decimal(_)
Decimal(n) ==
    IF n < 10
    THEN << Chars32[17 + n] >>
    ELSE Append(Decimal(n \div 10), Chars32[17 + (n % 10)])

\* gitSha: the header "{type} {content.length}" with its final zero byte
Header(type, length) ==
    BufferFrom(type \o << " " >> \o Decimal(length)) \o << 0 >>

Word(hi, lo) == [hi |-> hi, lo |-> lo]

\* The bitwise and of two numbers of the given number of bits, two bits at a
\* time
RECURSIVE And16(_, _, _)
And16(a, b, bits) ==
    IF bits = 0
    THEN 0
    ELSE ((a % 2) * (b % 2)) + (2 * (((a \div 2) % 2) * ((b \div 2) % 2))) +
         (4 * And16(a \div 4, b \div 4, bits - 2))

Xor16(a, b) == (a + b) - (2 * And16(a, b, 16))

WAnd(a, b) == Word(And16(a.hi, b.hi, 16), And16(a.lo, b.lo, 16))
WXor(a, b) == Word(Xor16(a.hi, b.hi), Xor16(a.lo, b.lo))
WNot(a) == Word(65535 - a.hi, 65535 - a.lo)

\* Addition modulo 2^32
WAdd(a, b) ==
    Word((a.hi + b.hi + ((a.lo + b.lo) \div 65536)) % 65536,
         (a.lo + b.lo) % 65536)

\* Rotation to the left by fewer than 16 bits, and by 30 bits
Rotl(a, n) ==
    Word(((a.hi * (2^n)) % 65536) + (a.lo \div (2^(16 - n))),
         ((a.lo * (2^n)) % 65536) + (a.hi \div (2^(16 - n))))

Rotl30(a) == Rotl(Word(a.lo, a.hi), 14)

\* The padding of SHA-1: a 1 bit, zeros up to 56 modulo 64 bytes and the
\* length of the message in bits as a 64-bit number (messages are far
\* shorter than 2^16 bytes here)
Padded(bytes) ==
    LET zeros == (119 - (Len(bytes) % 64)) % 64
        bits == Len(bytes) * 8
    IN bytes \o << 128 >> \o [i \in 1..zeros |-> 0] \o
       << 0, 0, 0, 0, 0, 0, (bits \div 256) % 256, bits % 256 >>

\* The sixteen words of block k of a padded message
BlockWords(padded, k) ==
    [t \in 1..16 |->
       LET at == (64 * (k - 1)) + (4 * (t - 1))
       IN Word((padded[at + 1] * 256) + padded[at + 2],
               (padded[at + 3] * 256) + padded[at + 4])]

\* The message schedule: eighty words from the sixteen of the block, built
\* sixteen at a time.  (The tests of next are always true; they make next a
\* computed value before the operator is applied again, here and in the
\* rounds below.)
RECURSIVE Extend(_, _)
Extend(w, length) ==
    IF Len(w) >= length
    THEN w
    ELSE LET t == Len(w) + 1
             next == Append(w, Rotl(WXor(WXor(w[t - 3], w[t - 8]),
                                         WXor(w[t - 14], w[t - 16])), 1))
         IN IF Len(next) = t THEN Extend(next, length) ELSE w

RECURSIVE Schedule(_)
Schedule(w) ==
    IF Len(w) >= 80
    THEN w
    ELSE LET next == Extend(w, Len(w) + 16)
         IN IF Len(next) > Len(w) THEN Schedule(next) ELSE w

RoundF(t, b, c, d) ==
    IF t <= 20 THEN WAdd(WAnd(b, c), WAnd(WNot(b), d))
    ELSE IF t <= 40 THEN WXor(WXor(b, c), d)
    ELSE IF t <= 60 THEN WAdd(WAnd(b, c), WAnd(d, WXor(b, c)))
    ELSE WXor(WXor(b, c), d)

RoundK(t) ==
    IF t <= 20 THEN Word(23170, 31129)
    ELSE IF t <= 40 THEN Word(28377, 60321)
    ELSE IF t <= 60 THEN Word(36635, 48348)
    ELSE Word(51810, 49622)

\* Rounds t to last on the working registers s = << a, b, c, d, e >>
RECURSIVE Rounds(_, _, _, _)
Rounds(s, w, t, last) ==
    IF t > last
    THEN s
    ELSE LET temp == WAdd(WAdd(WAdd(Rotl(s[1], 5),
                                    RoundF(t, s[2], s[3], s[4])),
                               WAdd(s[5], RoundK(t))), w[t])
             next == << temp, s[1], Rotl30(s[2]), s[3], s[4] >>
         IN IF next[1].hi >= 0 THEN Rounds(next, w, t + 1, last) ELSE s

\* The eighty rounds, ten at a time
RECURSIVE AllRounds(_, _, _)
AllRounds(s, w, t) ==
    IF t > 80
    THEN s
    ELSE LET next == Rounds(s, w, t, t + 9)
         IN IF next[1].hi >= 0 THEN AllRounds(next, w, t + 10) ELSE s

RECURSIVE Blocks(_, _, _)
Blocks(h, padded, k) ==
    IF 64 * (k - 1) >= Len(padded)
    THEN h
    ELSE LET s == AllRounds(h, Schedule(BlockWords(padded, k)), 1)
             next == << WAdd(h[1], s[1]), WAdd(h[2], s[2]), WAdd(h[3], s[3]),
                        WAdd(h[4], s[4]), WAdd(h[5], s[5]) >>
         IN IF next[1].hi >= 0 THEN Blocks(next, padded, k + 1) ELSE h

Sha1(bytes) ==
    Blocks(<< Word(26437, 8961), Word(61389, 43913), Word(39098, 56574),
              Word(4146, 21622), Word(50130, 57840) >>,
           Padded(bytes), 1)

HexDigits ==
    << "0", "1", "2", "3", "4", "5", "6", "7", "8", "9",
       "a", "b", "c", "d", "e", "f" >>

Hex16(n) ==
    HexDigits[(n \div 4096) + 1] \o HexDigits[((n \div 256) % 16) + 1] \o
    HexDigits[((n \div 16) % 16) + 1] \o HexDigits[(n % 16) + 1]

\* shasum.digest("hex")
DigestHex(h) ==
    Hex16(h[1].hi) \o Hex16(h[1].lo) \o Hex16(h[2].hi) \o Hex16(h[2].lo) \o
    Hex16(h[3].hi) \o Hex16(h[3].lo) \o Hex16(h[4].hi) \o Hex16(h[4].lo) \o
    Hex16(h[5].hi) \o Hex16(h[5].lo)

\* The characters of the name of an object type
Characters(type) ==
    CASE type = "blob" -> << "b", "l", "o", "b" >>
      [] type = "tree" -> << "t", "r", "e", "e" >>
      [] type = "commit" -> << "c", "o", "m", "m", "i", "t" >>

\* The string that gitSha returns for the data sha stands for: the hex
\* digest of the header followed by the content
hexDigest(sha) ==
    DigestHex(Sha1(Header(Characters(sha.type), sha.length) \o
                   BufferFrom(sha.bytes)))

----------------------------------------------------------------------------
\* The remote repository as Stage observes it

BranchNames == {"master", "test"}

\* Stage constructor arguments (new Stage(repository, branch, baseBranch))
StageBranch == "test"
StageBaseBranch == "master"

\* One entry of a fetched tree (TreeObject).  content stands for the blob
\* that the entry's url serves.
TreeFile(path, content, mode) ==
    [path |-> path, mode |-> mode, type |-> ObjectTypeBlob,
     sha |-> blobSha(content), content |-> content]

TreeDir(path) ==
    [path |-> path, mode |-> ObjectModeDirectory, type |-> ObjectTypeTree,
     sha |-> gitSha("tree", path), content |-> <<>>]

\* A recursive tree listing as GitHub returns it: the directory "a" is
\* listed as a tree entry next to the blobs below it.
TreeWithDir ==
    << TreeDir(PathA),
       TreeFile(PathAX, ContentHi, ObjectModeFile),
       TreeFile(PathAY, ContentYo, ObjectModeFile),
       TreeFile(PathABX, ContentHi, ObjectModeExecutable) >>

TreeFlat ==
    << TreeFile(PathB, ContentHi, ObjectModeFile),
       TreeFile(PathX, ContentYo, ObjectModeFile) >>

TreeEmpty == << >>

NoBranch == [exists |-> FALSE, tree |-> << >>]
Branch(tree) == [exists |-> TRUE, tree |-> tree]

\* Repository.name: the name of the GitHub repository
RepoName == "git-test"

\* The branches of the remote: those of Stage, and one that could be named
\* like the repository
Remote(master, test, named) ==
    [b \in BranchNames \cup {RepoName} |->
       IF b = "master" THEN master ELSE IF b = "test" THEN test ELSE named]

\* The remote states a session may meet: which of the branches exist and
\* the tree of the latest commit of each.
RemoteStates ==
    { Remote(Branch(TreeWithDir), NoBranch, NoBranch),
      Remote(Branch(TreeEmpty), NoBranch, NoBranch),
      Remote(Branch(TreeEmpty), Branch(TreeWithDir), NoBranch),
      Remote(Branch(TreeWithDir), Branch(TreeFlat), NoBranch),
      Remote(NoBranch, NoBranch, NoBranch),
      Remote(Branch(TreeWithDir), NoBranch, Branch(TreeEmpty)) }

----------------------------------------------------------------------------
\* ChangeMap: a JavaScript object used as a map.  ref is the identity of the
\* object (what Object.is compares), ents its own properties in insertion
\* order, each pointing to a Change object of the heap.

Keys(changes) == [i \in 1..Len(changes.ents) |-> changes.ents[i].key]

KeySet(changes) == {changes.ents[i].key : i \in 1..Len(changes.ents)}

\* path in changes
In(path, changes) == path \in KeySet(changes)

IndexOf(path, changes) ==
    CHOOSE i \in 1..Len(changes.ents) : changes.ents[i].key = path

\* changes[path] (the heap address of the object)
At(changes, path) == changes.ents[IndexOf(path, changes)].obj

\* { ...changes }: a new object with the same properties in the same order
Clone(changes, ref) == [ref |-> ref, ents |-> changes.ents]

\* cloned[path] = obj: an existing key keeps its position, a new one is
\* appended.
Put(changes, path, obj) ==
    IF In(path, changes)
    THEN [changes EXCEPT !.ents[IndexOf(path, changes)].obj = obj]
    ELSE [changes EXCEPT !.ents = Append(@, [key |-> path, obj |-> obj])]

\* delete cloned[path]
Remove(changes, path) ==
    IF In(path, changes)
    THEN LET i == IndexOf(path, changes)
         IN [changes EXCEPT !.ents =
                SubSeq(@, 1, i - 1) \o SubSeq(@, i + 1, Len(@))]
    ELSE changes

----------------------------------------------------------------------------
\* What an applicator has at hand besides its input map: the heap of Change
\* objects, the calls made so far on the Repository and on the caller's
\* modifier callbacks, the next unused object identity, and the fields of
\* the Stage and of the remote that the applicators read.
\*   w = [heap, calls, nextRef, dry, cached, remote, truncated, failAt]

ErrNone == "none"
ErrTypeError == "TypeError: Cannot read property 'changes' of undefined"
ErrNoSuchBranch == "No such branch"
ErrTruncatedFiles == "unable to fetch entire tree."
ErrTruncated == "Unable to retrieve all objects for current tree"

\* A ChangeResult together with the world it leaves behind.  undef marks
\* an applicator that returned undefined instead of a ChangeResult; err an
\* applicator whose promise rejected.
Result(changes, entries, w) ==
    [changes |-> changes, entries |-> entries, w |-> w,
     err |-> ErrNone, undef |-> FALSE]

Rejected(changes, w, err) ==
    [changes |-> changes, entries |-> << >>, w |-> w,
     err |-> err, undef |-> FALSE]

Undefined(changes, w) ==
    [changes |-> changes, entries |-> << >>, w |-> w,
     err |-> ErrNone, undef |-> TRUE]

Call(w, call) == [w EXCEPT !.calls = Append(@, call)]

\* The rejection of a Repository call whose HTTP request failed
ErrRemote == "Request failed"

\* The Repository calls among the calls made so far (the rest are modifier
\* callbacks)
RepoCalls(calls) ==
    Cardinality({ i \in 1..Len(calls) : calls[i].fn # "modifier" })

\* w.failAt numbers the Repository call of this commit() that the remote
\* fails, 0 when every call is answered.
Fails(w) == w.failAt # 0 /\ RepoCalls(w.calls) + 1 = w.failAt

\* A call on the Repository; one that fails is recorded as failed.
RemoteCall(w, call) ==
    IF Fails(w) THEN Call(w, call @@ [failed |-> TRUE]) ELSE Call(w, call)

\* Stage.isDryRun
isDryRun(w) == w.dry

\* Stage.createBlob answering a dry run with the hash of the empty blob
createBlobDryEmpty(content, w) ==
    IF ~isDryRun(w)
    THEN [sha |-> blobSha(content),
          w |-> RemoteCall(w, [fn |-> "createBlob", content |-> content]),
          err |-> IF Fails(w) THEN ErrRemote ELSE ErrNone]
    ELSE [sha |-> blobSha(<< >>), w |-> w, err |-> ErrNone]

\* Stage.createBlob without the dry-run test
createBlobIgnoringDryRun(content, w) ==
    [sha |-> blobSha(content),
     w |-> RemoteCall(w, [fn |-> "createBlob", content |-> content]),
     err |-> IF Fails(w) THEN ErrRemote ELSE ErrNone]

\* Stage.createBlob: the repository is asked only outside a dry run; the
\* store answers with the git blob hash of the content.
createBlob(content, w) ==
    IF ~isDryRun(w)
    THEN [sha |-> blobSha(content),
          w |-> RemoteCall(w, [fn |-> "createBlob", content |-> content]),
          err |-> IF Fails(w) THEN ErrRemote ELSE ErrNone]
    ELSE [sha |-> blobSha(content), w |-> w, err |-> ErrNone]

\* Stage.nochange handing back a copy of the map
nochangeCopy(changes, w) ==
    Result(Clone(changes, w.nextRef), << >>, [w EXCEPT !.nextRef = @ + 1])

\* Stage.nochange
nochange(changes, w) == Result(changes, << >>, w)

\* Stage.add comparing the mode as well as the hash before it gives up
addComparingMode(path, content, mode, type, changes, w) ==
    IF /\ In(path, changes)
       /\ w.heap[At(changes, path)].sha = blobSha(content)
       /\ w.heap[At(changes, path)].mode = mode
    THEN nochange(changes, w)
    ELSE LET blob == createBlob(content, w)
             obj == Len(blob.w.heap) + 1
             cloned == Put(Clone(changes, blob.w.nextRef), path, obj)
         IN IF blob.err # ErrNone
            THEN Rejected(changes, blob.w, blob.err)
            ELSE Result(cloned,
                   << [type |-> ChangeTypeAdd, dest |-> path,
                       destContent |-> content] >>,
                   [blob.w EXCEPT
                      !.heap = Append(@, [path |-> path, sha |-> blob.sha,
                                          mode |-> mode, type |-> type]),
                      !.nextRef = @ + 1])

\* Stage.add without the comparison of hashes
addWithoutShortCircuit(path, content, mode, type, changes, w) ==
    LET blob == createBlob(content, w)
        obj == Len(blob.w.heap) + 1
        cloned == Put(Clone(changes, blob.w.nextRef), path, obj)
    IN IF blob.err # ErrNone
       THEN Rejected(changes, blob.w, blob.err)
       ELSE Result(cloned,
              << [type |-> ChangeTypeAdd, dest |-> path,
                  destContent |-> content] >>,
              [blob.w EXCEPT
                 !.heap = Append(@, [path |-> path, sha |-> blob.sha,
                                     mode |-> mode, type |-> type]),
                 !.nextRef = @ + 1])

\* Stage.add storing the default mode instead of the mode it was given
addDroppingMode(path, content, mode, type, changes, w) ==
    IF In(path, changes) /\ w.heap[At(changes, path)].sha = blobSha(content)
    THEN nochange(changes, w)
    ELSE LET blob == createBlob(content, w)
             obj == Len(blob.w.heap) + 1
             cloned == Put(Clone(changes, blob.w.nextRef), path, obj)
         IN IF blob.err # ErrNone
            THEN Rejected(changes, blob.w, blob.err)
            ELSE Result(cloned,
                   << [type |-> ChangeTypeAdd, dest |-> path,
                       destContent |-> content] >>,
                   [blob.w EXCEPT
                      !.heap = Append(@, [path |-> path, sha |-> blob.sha,
                                          mode |-> ObjectModeFile,
                                          type |-> type]),
                      !.nextRef = @ + 1])

\* Stage.add
add(path, content, mode, type, changes, w) ==
    IF In(path, changes) /\ w.heap[At(changes, path)].sha = blobSha(content)
    THEN nochange(changes, w)
    ELSE LET blob == createBlob(content, w)
             obj == Len(blob.w.heap) + 1
             cloned == Put(Clone(changes, blob.w.nextRef), path, obj)
         IN IF blob.err # ErrNone
            THEN Rejected(changes, blob.w, blob.err)
            ELSE Result(cloned,
                   << [type |-> ChangeTypeAdd, dest |-> path,
                       destContent |-> content] >>,
                   [blob.w EXCEPT
                      !.heap = Append(@, [path |-> path, sha |-> blob.sha,
                                          mode |-> mode, type |-> type]),
                      !.nextRef = @ + 1])

\* Stage.modify giving up when the path is not in the map
modifyPresentOnly(path, srcContent, destContent, destMode, changes, w) ==
    IF ~In(path, changes) \/ w.heap[At(changes, path)].sha = blobSha(destContent)
    THEN nochange(changes, w)
    ELSE LET blob == createBlob(destContent, w)
             obj == Len(blob.w.heap) + 1
             cloned == Put(Clone(changes, blob.w.nextRef), path, obj)
         IN IF blob.err # ErrNone
            THEN Rejected(changes, blob.w, blob.err)
            ELSE Result(cloned,
                   << [type |-> ChangeTypeModify, src |-> path, dest |-> path,
                       srcContent |-> srcContent,
                       destContent |-> destContent] >>,
                   [blob.w EXCEPT
                      !.heap = Append(@, [path |-> path, sha |-> blob.sha,
                                          mode |-> destMode,
                                          type |-> ObjectTypeBlob]),
                      !.nextRef = @ + 1])

\* Stage.modify
modify(path, srcContent, destContent, destMode, changes, w) ==
    IF In(path, changes) /\ w.heap[At(changes, path)].sha = blobSha(destContent)
    THEN nochange(changes, w)
    ELSE LET blob == createBlob(destContent, w)
             obj == Len(blob.w.heap) + 1
             cloned == Put(Clone(changes, blob.w.nextRef), path, obj)
         IN IF blob.err # ErrNone
            THEN Rejected(changes, blob.w, blob.err)
            ELSE Result(cloned,
                   << [type |-> ChangeTypeModify, src |-> path, dest |-> path,
                       srcContent |-> srcContent,
                       destContent |-> destContent] >>,
                   [blob.w EXCEPT
                      !.heap = Append(@, [path |-> path, sha |-> blob.sha,
                                          mode |-> destMode,
                                          type |-> ObjectTypeBlob]),
                      !.nextRef = @ + 1])

\* Stage.delete without the test for the key
deleteWithoutCheck(path, changes, w) ==
    LET cloned == Remove(Clone(changes, w.nextRef), path)
    IN Result(cloned,
              << [type |-> ChangeTypeDelete, src |-> path] >>,
              [w EXCEPT !.nextRef = @ + 1])

\* Stage.delete
delete(path, changes, w) ==
    IF ~In(path, changes)
    THEN nochange(changes, w)
    ELSE LET cloned == Remove(Clone(changes, w.nextRef), path)
         IN Result(cloned,
                   << [type |-> ChangeTypeDelete, src |-> path] >>,
                   [w EXCEPT !.nextRef = @ + 1])

\* Stage.move leaving the path field of the moved Change as it was
moveKeepingPath(src, dest, changes, w) ==
    IF ~In(src, changes)
    THEN nochange(changes, w)
    ELSE LET change == At(changes, src)
             cloned == Put(Remove(Clone(changes, w.nextRef), src), dest, change)
         IN Result(cloned,
                   << [type |-> ChangeTypeMove, src |-> src, dest |-> dest] >>,
                   [w EXCEPT !.nextRef = @ + 1])

\* Stage.move reporting the entry it overwrites as deleted
moveRecordingOverwrite(src, dest, changes, w) ==
    IF ~In(src, changes)
    THEN nochange(changes, w)
    ELSE LET change == At(changes, src)
             cloned == Put(Remove(Clone(changes, w.nextRef), src), dest, change)
             overwritten == IF In(dest, changes) /\ dest # src
                            THEN << [type |-> ChangeTypeDelete, src |-> dest] >>
                            ELSE << >>
         IN Result(cloned,
                   overwritten \o
                   << [type |-> ChangeTypeMove, src |-> src, dest |-> dest] >>,
                   [w EXCEPT !.heap[change].path = dest, !.nextRef = @ + 1])

\* Stage.move without the removal of the source key
moveKeepingSource(src, dest, changes, w) ==
    IF ~In(src, changes)
    THEN nochange(changes, w)
    ELSE LET change == At(changes, src)
             cloned == Put(Clone(changes, w.nextRef), dest, change)
         IN Result(cloned,
                   << [type |-> ChangeTypeMove, src |-> src, dest |-> dest] >>,
                   [w EXCEPT !.heap[change].path = dest, !.nextRef = @ + 1])

\* Stage.move: the Change object is shared with the input map and its path
\* field is overwritten in place.
move(src, dest, changes, w) ==
    IF ~In(src, changes)
    THEN nochange(changes, w)
    ELSE LET change == At(changes, src)
             cloned == Put(Remove(Clone(changes, w.nextRef), src), dest, change)
         IN Result(cloned,
                   << [type |-> ChangeTypeMove, src |-> src, dest |-> dest] >>,
                   [w EXCEPT !.heap[change].path = dest, !.nextRef = @ + 1])

----------------------------------------------------------------------------
\* Selectors and modifier callbacks supplied by the caller

\* ObjectPredicates.pathEquals
pathEquals(path) == [kind |-> "pathEquals", path |-> path]

\* A caller-written predicate: every entry below a directory
PredUnder(dir) == [kind |-> "under", path |-> dir]

\* The string form of modifyFile's first argument
PathString(path) == [kind |-> "string", path |-> path]

\* isPredicate
isPredicate(predicate) == predicate.kind # "string"

\* The predicate applied to a tree entry
Holds(pred, to) ==
    CASE pred.kind = "pathEquals" -> to.path = pred.path
      [] pred.kind = "under" -> StartsWith(to.path, pred.path \o Slash)
      [] OTHER -> FALSE

\* ContentModifier callbacks: (content) => content, (content) => content + "!"
\* Contents are ASCII, for which toString("utf8") followed by Buffer.from
\* gives back the same bytes.
RunContentModifier(modifier, content) ==
    CASE modifier = "same" -> content
      [] modifier = "append" -> Append(content, "!")
      [] OTHER -> ContentYo

\* FileModifier callbacks of modifyFiles, which may also change the mode
RunFileModifier(modifier, path, content, mode) ==
    CASE modifier = "same" -> [content |-> content, mode |-> mode]
      [] modifier = "append" -> [content |-> Append(content, "!"), mode |-> mode]
      [] OTHER -> [content |-> content, mode |-> ObjectModeExecutable]

\* Repository.getFilesWithContent asking a second time when the first
\* request failed
getFilesWithContentRetrying(branch, predicate, w) ==
    LET w1 == RemoteCall(w, [fn |-> "getFilesWithContent", branch |-> branch])
        w2 == IF Fails(w)
              THEN Call(w1, [fn |-> "getFilesWithContent", branch |-> branch])
              ELSE w1
        tree == w.remote[branch].tree
        matching == SelectSeq(tree,
                      LAMBDA to : /\ to.type \in {ObjectTypeBlob, ObjectTypeCommit}
                                  /\ Holds(predicate, to))
    IN IF ~w.remote[branch].exists
       THEN [files |-> << >>, w |-> w2, err |-> ErrNoSuchBranch]
       ELSE IF w.truncated
       THEN [files |-> << >>, w |-> w2, err |-> ErrTruncatedFiles]
       ELSE [files |-> [i \in 1..Len(matching) |->
                          [type |-> matching[i].type, sha |-> matching[i].sha,
                           path |-> matching[i].path, mode |-> matching[i].mode,
                           content |-> matching[i].content]],
             w |-> w2, err |-> ErrNone]

\* Repository.getFilesWithContent (with getFilesWithPredicate,
\* getLatestCommitToBranch, failIfTruncated and getBlob)
getFilesWithContent(branch, predicate, w) ==
    LET w1 == RemoteCall(w, [fn |-> "getFilesWithContent", branch |-> branch])
        tree == w.remote[branch].tree
        matching == SelectSeq(tree,
                      LAMBDA to : /\ to.type \in {ObjectTypeBlob, ObjectTypeCommit}
                                  /\ Holds(predicate, to))
    IN IF Fails(w)
       THEN [files |-> << >>, w |-> w1, err |-> ErrRemote]
       ELSE IF ~w.remote[branch].exists
       THEN [files |-> << >>, w |-> w1, err |-> ErrNoSuchBranch]
       ELSE IF w.truncated
       THEN [files |-> << >>, w |-> w1, err |-> ErrTruncatedFiles]
       ELSE [files |-> [i \in 1..Len(matching) |->
                          [type |-> matching[i].type, sha |-> matching[i].sha,
                           path |-> matching[i].path, mode |-> matching[i].mode,
                           content |-> matching[i].content]],
             w |-> w1, err |-> ErrNone]

----------------------------------------------------------------------------
\* Applicators.  A ChangeApplicator closure is a record naming the function
\* that made it and the values it closed over; Apply runs it on a map.

ApAdd(path, content, mode) ==
    [fn |-> "add", path |-> path, content |-> content, mode |-> mode]
ApModify(path, srcContent, destContent, destMode) ==
    [fn |-> "modify", path |-> path, srcContent |-> srcContent,
     destContent |-> destContent, destMode |-> destMode]
ApDelete(path) == [fn |-> "delete", path |-> path]
ApMove(src, dest) == [fn |-> "move", src |-> src, dest |-> dest]
ApJoin(a, b) == [fn |-> "join", a |-> a, b |-> b]
ApSequence(results) == [fn |-> "sequence", results |-> results]
ApModifyFile(predicate, modifier) ==
    [fn |-> "modifyFile", predicate |-> predicate, modifier |-> modifier]
ApModifyFiles(predicate, modifier) ==
    [fn |-> "modifyFiles", predicate |-> predicate, modifier |-> modifier]
ApDeleteFile(path) == [fn |-> "deleteFile", path |-> path]
ApMoveFile(src, dest) == [fn |-> "moveFile", src |-> src, dest |-> dest]

RECURSIVE Apply(_, _, _)
RECURSIVE SequenceFrom(_, _)

\* Stage.sequence: the reducer reads result.changes and result.entries of
\* what each applicator resolved to; a rejection ends the chain.
SequenceFrom(results, acc) ==
    IF results = << >> \/ acc.err # ErrNone
    THEN acc
    ELSE LET result == Apply(Head(results), acc.changes, acc.w)
         IN IF result.err # ErrNone
            THEN Rejected(acc.changes, result.w, result.err)
            ELSE IF result.undef
            THEN Rejected(acc.changes, result.w, ErrTypeError)
            ELSE SequenceFrom(Tail(results),
                              Result(result.changes,
                                     acc.entries \o result.entries, result.w))

\* Stage.sequence running every applicator on the map it was given instead
\* of the map the applicator before it produced
sequenceOnInput(results, changes, w) ==
    IF results = << >>
    THEN Result(changes, << >>, w)
    ELSE LET front == SequenceFrom(SubSeq(results, 1, Len(results) - 1),
                                   Result(changes, << >>, w))
             result == Apply(results[Len(results)], changes, front.w)
         IN IF front.err # ErrNone
            THEN front
            ELSE Result(result.changes, front.entries \o result.entries,
                        result.w)

sequence(results, changes, w) ==
    SequenceFrom(results, Result(changes, << >>, w))

\* Stage.join putting the records of the second applicator first
joinSecondFirst(a, b, changes, w) ==
    LET changeResultA == Apply(a, changes, w)
    IN IF changeResultA.err # ErrNone
       THEN changeResultA
       ELSE IF changeResultA.undef
       THEN Rejected(changes, changeResultA.w, ErrTypeError)
       ELSE LET changeResultB == Apply(b, changeResultA.changes, changeResultA.w)
            IN IF changeResultB.err # ErrNone
               THEN changeResultB
               ELSE IF changeResultB.undef
               THEN Rejected(changes, changeResultB.w, ErrTypeError)
               ELSE Result(changeResultB.changes,
                           changeResultB.entries \o changeResultA.entries,
                           changeResultB.w)

\* Stage.join
join(a, b, changes, w) ==
    LET changeResultA == Apply(a, changes, w)
    IN IF changeResultA.err # ErrNone
       THEN changeResultA
       ELSE IF changeResultA.undef
       THEN Rejected(changes, changeResultA.w, ErrTypeError)
       ELSE LET changeResultB == Apply(b, changeResultA.changes, changeResultA.w)
            IN IF changeResultB.err # ErrNone
               THEN changeResultB
               ELSE IF changeResultB.undef
               THEN Rejected(changes, changeResultB.w, ErrTypeError)
               ELSE Result(changeResultB.changes,
                           changeResultA.entries \o changeResultB.entries,
                           changeResultB.w)

\* Stage.deleteFile matching the keys below the path without the separator
deleteFileByRawPrefix(path, changes, w) ==
    LET single == ApDelete(path)
        below == SelectSeq(Keys(changes), LAMBDA k : StartsWith(k, path))
        applicators == [i \in 1..Len(below) |-> ApDelete(below[i])]
        second == ApSequence(applicators)
    IN join(single, second, changes, w)

\* The applicator staged by Stage.deleteFile
deleteFileApplicator(path, changes, w) ==
    LET single == ApDelete(path)
        below == SelectSeq(Keys(changes),
                           LAMBDA k : StartsWith(k, path \o Slash))
        applicators == [i \in 1..Len(below) |-> ApDelete(below[i])]
        second == ApSequence(applicators)
    IN join(single, second, changes, w)

\* Stage.moveFile returning nothing when the source is absent
moveFileWithoutFallback(src, dest, changes, w) ==
    IF In(src, changes)
    THEN LET single == ApMove(src, dest)
         IN IF w.heap[At(changes, src)].type = ObjectTypeTree
            THEN LET below == SelectSeq(Keys(changes),
                                LAMBDA k : StartsWith(k, src \o Slash))
                     applicators ==
                        [i \in 1..Len(below) |->
                           ApMove(below[i], ReplacePrefix(below[i], src, dest))]
                     second == ApSequence(applicators)
                 IN join(single, second, changes, w)
            ELSE Apply(single, changes, w)
    ELSE Undefined(changes, w)

\* The applicator staged by Stage.moveFile
moveFileApplicator(src, dest, changes, w) ==
    IF In(src, changes)
    THEN LET single == ApMove(src, dest)
         IN IF w.heap[At(changes, src)].type = ObjectTypeTree
            THEN LET below == SelectSeq(Keys(changes),
                                LAMBDA k : StartsWith(k, src \o Slash))
                     applicators ==
                        [i \in 1..Len(below) |->
                           ApMove(below[i], ReplacePrefix(below[i], src, dest))]
                     second == ApSequence(applicators)
                 IN join(single, second, changes, w)
            ELSE Apply(single, changes, w)
    ELSE Result(changes, << >>, w)

\* The applicator staged by Stage.modifyFile: with anything but exactly one
\* matching file it logs a warning and returns nothing.
modifyFileApplicator(predicate, modifier, changes, w) ==
    LET pred == IF isPredicate(predicate)
                THEN predicate
                ELSE pathEquals(predicate.path)
        baseBranch == w.cached
        got == getFilesWithContent(baseBranch, pred, w)
    IN IF got.err # ErrNone
       THEN Rejected(changes, got.w, got.err)
       ELSE IF Len(got.files) = 1
       THEN LET file == got.files[1]
                w2 == Call(got.w, [fn |-> "modifier", path |-> file.path,
                                   content |-> file.content])
                modified == RunContentModifier(modifier, file.content)
            IN modify(file.path, file.content, modified, file.mode, changes, w2)
       ELSE Undefined(changes, got.w)

RECURSIVE ModifierCalls(_, _)
ModifierCalls(files, w) ==
    IF files = << >> THEN w
    ELSE ModifierCalls(Tail(files),
                       Call(w, [fn |-> "modifier", path |-> Head(files).path,
                                content |-> Head(files).content]))

\* The applicator staged by Stage.modifyFiles
modifyFilesApplicator(predicate, modifier, changes, w) ==
    LET baseBranch == w.cached
        got == getFilesWithContent(baseBranch, predicate, w)
        files == got.files
        applicators ==
            [i \in 1..Len(files) |->
               LET f == files[i]
                   modified == RunFileModifier(modifier, f.path, f.content, f.mode)
               IN ApModify(f.path, f.content, modified.content, modified.mode)]
    IN IF got.err # ErrNone
       THEN Rejected(changes, got.w, got.err)
       ELSE sequence(applicators, changes, ModifierCalls(files, got.w))

Apply(ap, changes, w) ==
    CASE ap.fn = "add" ->
            add(ap.path, ap.content, ap.mode, ObjectTypeBlob, changes, w)
      [] ap.fn = "modify" ->
            modify(ap.path, ap.srcContent, ap.destContent, ap.destMode,
                   changes, w)
      [] ap.fn = "delete" -> delete(ap.path, changes, w)
      [] ap.fn = "move" -> move(ap.src, ap.dest, changes, w)
      [] ap.fn = "join" -> join(ap.a, ap.b, changes, w)
      [] ap.fn = "sequence" -> sequence(ap.results, changes, w)
      [] ap.fn = "modifyFile" ->
            modifyFileApplicator(ap.predicate, ap.modifier, changes, w)
      [] ap.fn = "modifyFiles" ->
            modifyFilesApplicator(ap.predicate, ap.modifier, changes, w)
      [] ap.fn = "deleteFile" -> deleteFileApplicator(ap.path, changes, w)
      [] ap.fn = "moveFile" -> moveFileApplicator(ap.src, ap.dest, changes, w)

----------------------------------------------------------------------------
\* State

VARIABLES
    remote,                 \* the branches of the remote and their trees
    truncated,              \* whether the remote reports its trees truncated
    changeSets,             \* Stage.#changeSets
    dry,                    \* Stage.#dry
    cachedBaseBranch,       \* Stage.#_cachedBasedBranch ("" when unset)
    pc,                     \* where commit() stands
    latestCommit,           \* commit(): latestCommit
    existingChangesState,   \* commit(): existingChangesState
    changeState,            \* commit(): the accumulator of the reduce
    next,                   \* commit(): index of the next change set
    heap,                   \* the Change objects the maps point to
    nextRef,                \* the next unused object identity
    calls,                  \* calls on the Repository and on modifiers
    requests,               \* HTTP requests of createBranch and createCommit
    completion,             \* what commit() resolved to
    error,                  \* what commit() rejected with
    script,                 \* the failures the remote answers next with
    pages,                  \* the pages of the remote's repository listing
    task,                   \* the call on the API client that is running
    outcomes                \* what the finished calls on the client gave

vars == << remote, truncated, changeSets, dry, cachedBaseBranch, pc,
           latestCommit, existingChangesState, changeState, next, heap,
           nextRef, calls, requests, completion, error, script, pages, task,
           outcomes >>

stageVars == << changeSets, dry >>
clientVars == << script, pages, task, outcomes >>
commitVars == << cachedBaseBranch, latestCommit, existingChangesState,
                 changeState, next, heap, nextRef, calls, requests,
                 completion, error >>

\* class ChangeState
ChangeState(changeMap, entries) ==
    [changeMap |-> changeMap, entries |-> entries]

\* ChangeState.update
update(state, changeMap, newEntries) ==
    ChangeState(changeMap, state.entries \o newEntries)

\* ChangeState.toChangeList leaving out the value of the first key
toChangeListSkippingFirst(state, h) ==
    [i \in 1..(Len(state.changeMap.ents) - 1) |->
       h[state.changeMap.ents[i + 1].obj]]

\* ChangeState.toChangeList
toChangeList(state, h) ==
    [i \in 1..Len(state.changeMap.ents) |-> h[state.changeMap.ents[i].obj]]

\* ChangeState.equals comparing the keys of the two maps
equalsByKeys(this, that) ==
    KeySet(this.changeMap) = KeySet(that.changeMap)

\* ChangeState.equals
equals(this, that) == this.changeMap.ref = that.changeMap.ref

NoRef == [present |-> FALSE, ref |-> << >>, sha |-> ""]

\* class CommitCompletion
CommitCompletion(branch, changes, dryRun, ref) ==
    [branch |-> branch, changes |-> changes, dryRun |-> dryRun, ref |-> ref]

\* CommitCompletion.hasChanges
hasChanges(c) == IF c.ref.present THEN TRUE ELSE FALSE

NoCompletion == [branch |-> "", changes |-> << >>, dryRun |-> FALSE,
                 ref |-> NoRef]

EmptyMap == [ref |-> 0, ents |-> << >>]
NoState == ChangeState(EmptyMap, << >>)
NoCommit == [branch |-> "", tree |-> << >>]

\* No call on the API client is running
Idle == [fn |-> "idle"]

World ==
    [heap |-> heap, calls |-> calls, nextRef |-> nextRef, dry |-> dry,
     cached |-> cachedBaseBranch, remote |-> remote, truncated |-> truncated,
     failAt |-> 0]

\* The Stage as its constructor leaves it
StageInit ==
    /\ requests = << >>
    /\ changeSets = << >>
    /\ dry = FALSE
    /\ cachedBaseBranch = ""
    /\ pc = "staging"
    /\ latestCommit = NoCommit
    /\ existingChangesState = NoState
    /\ changeState = NoState
    /\ next = 1
    /\ heap = << >>
    /\ nextRef = 1
    /\ calls = << >>
    /\ completion = NoCompletion
    /\ error = ErrNone

Init ==
    /\ remote \in RemoteStates
    /\ truncated \in BOOLEAN
    /\ StageInit
    /\ script = << >>
    /\ pages = << >>
    /\ task = Idle
    /\ outcomes = << >>

----------------------------------------------------------------------------
\* The builder.  Every call pushes one change set and returns the Stage.

AddInputs ==
    { [path |-> PathAX, content |-> ContentHi, mode |-> ObjectModeFile],
      [path |-> PathAX, content |-> ContentYo, mode |-> ObjectModeFile],
      [path |-> PathAX, content |-> ContentHi, mode |-> ObjectModeExecutable],
      [path |-> PathB, content |-> ContentHi, mode |-> ObjectModeFile],
      [path |-> PathA, content |-> ContentYo, mode |-> ObjectModeFile] }

LocalFilesInputs ==
    { [files |-> << [path |-> PathX, data |-> ContentYo, mode |-> ObjectModeFile],
                    [path |-> PathZ, data |-> ContentHi, mode |-> ObjectModeExecutable] >>,
       basePath |-> << >>],
      [files |-> << [path |-> PathX, data |-> ContentHi, mode |-> ObjectModeFile],
                    [path |-> PathZ, data |-> ContentHi, mode |-> ObjectModeFile] >>,
       basePath |-> PathB] }

DeleteInputs == { PathA, PathAX, PathB, PathZ }

MoveInputs ==
    { << PathA, PathB >>, << PathAX, PathBX >>, << PathAX, PathAY >>,
      << PathB, PathZ >> }

ModifyFileInputs ==
    { [predicate |-> PathString(PathAX), modifier |-> "append"],
      [predicate |-> PathString(PathAX), modifier |-> "same"],
      [predicate |-> PathString(PathZ), modifier |-> "append"],
      [predicate |-> PredUnder(PathA), modifier |-> "append"] }

ModifyFilesInputs ==
    { [predicate |-> PredUnder(PathA), modifier |-> "append"],
      [predicate |-> PredUnder(PathA), modifier |-> "chmod"],
      [predicate |-> PredUnder(PathZ), modifier |-> "append"] }

Staging == pc = "staging" /\ Len(changeSets) < MaxOps

Push(applicators) ==
    /\ changeSets' = Append(changeSets, [changes |-> applicators])
    /\ UNCHANGED clientVars
    /\ UNCHANGED << remote, truncated, dry, pc >>
    /\ UNCHANGED commitVars

\* Stage.dryRun
DryRun(enabled) ==
    /\ pc = "staging"
    /\ dry' = enabled
    /\ UNCHANGED clientVars
    /\ UNCHANGED << remote, truncated, changeSets, pc >>
    /\ UNCHANGED commitVars

\* Stage.addFile
AddFile(path, content, mode) ==
    /\ Staging
    /\ Push(<< ApAdd(path, content, mode) >>)

\* Stage.addLocalFiles
AddLocalFiles(files, basePath) ==
    /\ Staging
    /\ Push([i \in 1..Len(files) |->
               LET filePath == IF basePath # << >>
                               THEN PathWithBase(basePath, files[i].path)
                               ELSE files[i].path
               IN ApAdd(filePath, files[i].data, files[i].mode)])

\* Stage.modifyFile reading the matching files when it is called
ModifyFileEager(predicate, modifier) ==
    /\ Staging
    /\ changeSets' = Append(changeSets,
                            [changes |-> << ApModifyFile(predicate, modifier) >>])
    /\ calls' = Append(calls, [fn |-> "getFilesWithContent",
                               branch |-> StageBaseBranch])
    /\ UNCHANGED clientVars
    /\ UNCHANGED << remote, requests, truncated, dry, pc, cachedBaseBranch,
                    latestCommit, existingChangesState, changeState, next,
                    heap, nextRef, completion, error >>

\* Stage.modifyFile
ModifyFile(predicate, modifier) ==
    /\ Staging
    /\ Push(<< ApModifyFile(predicate, modifier) >>)

\* Stage.modifyFiles
ModifyFiles(predicate, modifier) ==
    /\ Staging
    /\ Push(<< ApModifyFiles(predicate, modifier) >>)

\* Stage.deleteFile
DeleteFile(path) ==
    /\ Staging
    /\ Push(<< ApDeleteFile(path) >>)

\* Stage.moveFile
MoveFile(src, dest) ==
    /\ Staging
    /\ Push(<< ApMoveFile(src, dest) >>)

----------------------------------------------------------------------------
\* Repository.createBranch and Repository.createCommit, request by request.
\* s = [remote, requests, script]: the branches of the remote, the requests
\* sent so far and the failures the remote answers the next requests with.
\* A commit is identified by its tree, and a digest by the data it was
\* computed from, so the remote finds a tree or a commit by its sha.

\* const x = v: the value is computed once, where it is declared
Const(v, Rest(_)) == CHOOSE result \in { Rest(x) : x \in { v } } : TRUE

ErrRefExists == "Reference already exists"

Send(s, request) == [s EXCEPT !.requests = Append(@, request)]

\* What the remote answers with: a status, the error the HTTP client rejects
\* with for it (ErrNone for a 2xx) and the seconds of a Retry-After header
\* (0 for none).  The status of NetworkError stands for axiosErr.response
\* being undefined.
Pass == [status |-> 200, err |-> ErrNone, retryAfter |-> 0]
NotFound == [status |-> 404, err |-> "Request failed with status code 404",
             retryAfter |-> 0]
ServerError == [status |-> 500, err |-> "Request failed with status code 500",
                retryAfter |-> 0]
NetworkError == [status |-> -1, err |-> "Network Error", retryAfter |-> 0]

\* .reply(401, null, { "Retry-After": "1" })
AbuseLimit == [status |-> 401, err |-> "Request failed with status code 401",
               retryAfter |-> 1]

\* The answer to the next request: the failure the script holds for it, and
\* else 200 when what is asked for is found and 404 when it is not.
Answer(s, found) ==
    LET scripted == IF s.script = << >> THEN Pass ELSE Head(s.script)
    IN IF scripted.status # 200 THEN scripted
       ELSE IF found THEN Pass ELSE NotFound

\* A request that is answered from the script
Request(s, request) ==
    [Send(s, request) EXCEPT !.script = IF @ = << >> THEN @ ELSE Tail(@)]

\* notFoundToNull throwing an error of its own
notFoundToNullWrapping(answer) ==
    IF answer.status = 200 THEN [err |-> ErrNone, null |-> FALSE]
    ELSE IF answer.status = 404 THEN [err |-> ErrNone, null |-> TRUE]
    ELSE [err |-> ErrRemote, null |-> FALSE]

\* notFoundToNull: a 404 becomes a response with data null, any other
\* failure is thrown again
notFoundToNull(answer) ==
    IF answer.status = 200 THEN [err |-> ErrNone, null |-> FALSE]
    ELSE IF answer.status = 404 THEN [err |-> ErrNone, null |-> TRUE]
    ELSE [err |-> answer.err, null |-> FALSE]

\* Repository.getBranch: null (exists is FALSE, err is ErrNone) when the ref
\* is not found
getBranch(name, s) ==
    LET res == notFoundToNull(Answer(s, s.remote[name].exists))
    IN [exists |-> res.err = ErrNone /\ ~res.null,
        err |-> res.err,
        s |-> Request(s, [method |-> "GET",
                          url |-> << "git", "ref", "heads", name >>])]

\* The commit object of a branch whose latest commit has the given tree
CommitObject(tree) ==
    [sha |-> gitSha("commit", tree), tree |-> [sha |-> gitSha("tree", tree)]]

\* Repository.getLatestCommitToBranch
getLatestCommitToBranch(branch, s) ==
    LET branchRef == getBranch(branch, s)
        commit == CommitObject(s.remote[branch].tree)
        result == Answer(branchRef.s, TRUE)
    IN IF branchRef.err # ErrNone
       THEN [err |-> branchRef.err, commit |-> commit, s |-> branchRef.s]
       ELSE IF ~branchRef.exists
       THEN [err |-> ErrNoSuchBranch, commit |-> commit, s |-> branchRef.s]
       ELSE [err |-> result.err, commit |-> commit,
             s |-> Request(branchRef.s, [method |-> "GET",
                                         url |-> << "git", "commits" >>,
                                         sha |-> commit.sha])]

\* Repository.createBranchFromSha: the remote refuses to create a ref that
\* exists.
createBranchFromSha(name, sha, s) ==
    LET res == Answer(s, TRUE)
        sent == Request(s, [method |-> "POST", url |-> << "git", "refs" >>,
                            body |-> [ref |-> << "refs", "heads", name >>,
                                      sha |-> sha]])
    IN IF res.err # ErrNone
       THEN [err |-> res.err, s |-> sent]
       ELSE IF s.remote[name].exists
       THEN [err |-> ErrRefExists, s |-> sent]
       ELSE [err |-> ErrNone,
             s |-> [sent EXCEPT !.remote[name] = Branch(sha.bytes)]]

\* Repository.createBranch: the ref it looks up is heads/{this.name}
createBranch(name, branch, s) ==
    LET ref == getBranch(RepoName, s)
        commit == getLatestCommitToBranch(branch, ref.s)
    IN IF ref.err # ErrNone
       THEN [err |-> ref.err, s |-> ref.s]
       ELSE IF ref.exists
       THEN [err |-> ErrNone, s |-> ref.s]
       ELSE IF commit.err # ErrNone
       THEN [err |-> commit.err, s |-> commit.s]
       ELSE createBranchFromSha(name, commit.commit.sha, commit.s)

\* The tree the remote builds from the entries of a request
TreeOf(changes) ==
    [i \in 1..Len(changes) |->
       [path |-> changes[i].path, mode |-> changes[i].mode,
        type |-> changes[i].type, sha |-> changes[i].sha,
        content |-> changes[i].sha.bytes]]

\* Repository.createTree.  base is << >> when the argument is left out; with
\* a base_tree the remote keeps the entries of that tree which the request
\* does not name.
createTree(changes, base, s) ==
    LET createBody == IF base # << >>
                      THEN [base_tree |-> base[1], tree |-> changes]
                      ELSE [tree |-> changes]
        kept == IF base # << >>
                THEN SelectSeq(base[1].bytes,
                               LAMBDA t : \A i \in 1..Len(changes) :
                                             changes[i].path # t.path)
                ELSE << >>
    IN [tree |-> kept \o TreeOf(changes),
        err |-> Answer(s, TRUE).err,
        s |-> Request(s, [method |-> "POST", url |-> << "git", "trees" >>,
                          body |-> createBody])]

\* Repository.updateBranch moving the ref of the base branch
updateBranchOfBase(name, sha, s) ==
    LET res == Answer(s, TRUE)
        sent == Request(s, [method |-> "PATCH",
                            url |-> << "git", "refs", "heads", StageBaseBranch >>,
                            body |-> [sha |-> sha]])
    IN IF res.err # ErrNone
       THEN [err |-> res.err, s |-> sent]
       ELSE [err |-> ErrNone,
             s |-> [sent EXCEPT !.remote[StageBaseBranch] = Branch(sha.bytes)]]

\* Repository.updateBranch: the ref moves when the remote answers the PATCH
updateBranch(name, sha, s) ==
    LET res == Answer(s, TRUE)
        sent == Request(s, [method |-> "PATCH",
                            url |-> << "git", "refs", "heads", name >>,
                            body |-> [sha |-> sha]])
    IN IF res.err # ErrNone
       THEN [err |-> res.err, s |-> sent]
       ELSE [err |-> ErrNone,
             s |-> [sent EXCEPT !.remote[name] = Branch(sha.bytes)]]

\* Repository.createCommit
createCommit(branch, changes, delta, s) ==
    Const(getLatestCommitToBranch(branch, s), LAMBDA latestCommit_ :
      IF latestCommit_.err # ErrNone
      THEN [err |-> latestCommit_.err, s |-> latestCommit_.s]
      ELSE Const(IF delta
                 THEN createTree(changes, << latestCommit_.commit.tree.sha >>,
                                 latestCommit_.s)
                 ELSE createTree(changes, << >>, latestCommit_.s),
                 LAMBDA tree :
        IF tree.err # ErrNone
        THEN [err |-> tree.err, s |-> tree.s]
        ELSE Const(Request(tree.s,
                     [method |-> "POST", url |-> << "git", "commits" >>,
                      body |-> [tree |-> gitSha("tree", tree.tree),
                                parents |-> << latestCommit_.commit.sha >>]]),
                   LAMBDA posted :
          IF Answer(tree.s, TRUE).err # ErrNone
          THEN [err |-> Answer(tree.s, TRUE).err, s |-> posted]
          ELSE updateBranch(branch, gitSha("commit", tree.tree), posted))))

----------------------------------------------------------------------------
\* Stage.commit, one action per awaited step

\* Stage.getBaseBranch resolving to the configured base branch even when the
\* target branch exists
getBaseBranchIgnoringTarget(w) ==
    IF w.cached # ""
    THEN [baseBranch |-> w.cached, w |-> w]
    ELSE [baseBranch |-> StageBaseBranch,
          w |-> [Call(w, [fn |-> "getBranch", branch |-> StageBranch])
                   EXCEPT !.cached = StageBaseBranch]]

\* Stage.getBaseBranch
getBaseBranch(w) ==
    IF w.cached # ""
    THEN [baseBranch |-> w.cached, w |-> w]
    ELSE LET existing == w.remote[StageBranch].exists
             baseBranch == IF existing THEN StageBranch ELSE StageBaseBranch
         IN [baseBranch |-> baseBranch,
             w |-> [Call(w, [fn |-> "getBranch", branch |-> StageBranch])
                      EXCEPT !.cached = baseBranch]]

\* commit(): const baseBranch = await this.getBaseBranch()
CommitGetBaseBranch ==
    /\ pc = "staging"
    /\ LET got == getBaseBranch(World)
       IN /\ cachedBaseBranch' = got.w.cached
          /\ calls' = got.w.calls
    /\ pc' = "getLatestCommit"
    /\ UNCHANGED clientVars
    /\ UNCHANGED << remote, requests, truncated, changeSets, dry, latestCommit,
                    existingChangesState, changeState, next, heap, nextRef,
                    completion, error >>

\* commit(): await this.#repository.getLatestCommitToBranch(baseBranch);
\* Repository.getLatestCommitToBranch throws when the branch does not exist.
CommitGetLatestCommit ==
    /\ pc = "getLatestCommit"
    /\ calls' = Append(calls, [fn |-> "getLatestCommitToBranch",
                               branch |-> cachedBaseBranch])
    /\ IF remote[cachedBaseBranch].exists
       THEN /\ latestCommit' = [branch |-> cachedBaseBranch,
                                tree |-> remote[cachedBaseBranch].tree]
            /\ pc' = "getTree"
            /\ error' = error
       ELSE /\ latestCommit' = latestCommit
            /\ pc' = "rejected"
            /\ error' = ErrNoSuchBranch
    /\ UNCHANGED clientVars
    /\ UNCHANGED << remote, requests, truncated, changeSets, dry, cachedBaseBranch,
                    existingChangesState, changeState, next, heap, nextRef,
                    completion >>

\* The base map of commit(): the entries of the tree that are not trees,
\* keyed by their path; the map points to the fetched objects themselves.
BaseObjects(tree) == SelectSeq(tree, LAMBDA t : t.type # ObjectTypeTree)

BaseHeap(tree) ==
    [i \in 1..Len(BaseObjects(tree)) |->
       [path |-> BaseObjects(tree)[i].path, sha |-> BaseObjects(tree)[i].sha,
        mode |-> BaseObjects(tree)[i].mode, type |-> BaseObjects(tree)[i].type]]

BaseMap(tree, ref) ==
    [ref |-> ref,
     ents |-> [i \in 1..Len(BaseObjects(tree)) |->
                 [key |-> BaseObjects(tree)[i].path, obj |-> i]]]

\* commit() building the base map without the test of tree.truncated
CommitGetTreeIgnoringTruncation ==
    /\ pc = "getTree"
    /\ calls' = Append(calls, [fn |-> "getTree", branch |-> latestCommit.branch])
    /\ heap' = BaseHeap(latestCommit.tree)
    /\ existingChangesState' =
          ChangeState(BaseMap(latestCommit.tree, nextRef), << >>)
    /\ changeState' = existingChangesState'
    /\ nextRef' = nextRef + 1
    /\ pc' = "apply"
    /\ error' = error
    /\ UNCHANGED clientVars
    /\ UNCHANGED << remote, requests, truncated, changeSets, dry, cachedBaseBranch,
                    latestCommit, next, completion >>

\* commit(): await this.#repository.getTree(latestCommit), the truncation
\* check and the construction of existingChangesState
CommitGetTree ==
    /\ pc = "getTree"
    /\ calls' = Append(calls, [fn |-> "getTree", branch |-> latestCommit.branch])
    /\ IF truncated
       THEN /\ pc' = "rejected"
            /\ error' = ErrTruncated
            /\ UNCHANGED << existingChangesState, changeState, heap, nextRef >>
       ELSE /\ heap' = BaseHeap(latestCommit.tree)
            /\ existingChangesState' =
                  ChangeState(BaseMap(latestCommit.tree, nextRef), << >>)
            /\ changeState' = existingChangesState'
            /\ nextRef' = nextRef + 1
            /\ pc' = "apply"
            /\ error' = error
    /\ UNCHANGED clientVars
    /\ UNCHANGED << remote, requests, truncated, changeSets, dry, cachedBaseBranch,
                    latestCommit, next, completion >>

\* The reduce of commit() taking the change sets last pushed first
CommitApplyReversed ==
    /\ pc = "apply"
    /\ next <= Len(changeSets)
    /\ LET changeResults ==
              sequence(changeSets[Len(changeSets) + 1 - next].changes,
                       changeState.changeMap, World)
       IN /\ heap' = changeResults.w.heap
          /\ calls' = changeResults.w.calls
          /\ nextRef' = changeResults.w.nextRef
          /\ IF changeResults.err # ErrNone
             THEN /\ pc' = "rejected"
                  /\ error' = changeResults.err
                  /\ UNCHANGED << changeState, next >>
             ELSE /\ changeState' = update(changeState, changeResults.changes,
                                           changeResults.entries)
                  /\ next' = next + 1
                  /\ pc' = pc
                  /\ error' = error
    /\ UNCHANGED clientVars
    /\ UNCHANGED << remote, requests, truncated, changeSets, dry, cachedBaseBranch,
                    latestCommit, existingChangesState, completion >>

\* commit(): one round of the reduce over this.#changeSets
CommitApply ==
    /\ pc = "apply"
    /\ next <= Len(changeSets)
    /\ LET changeResults ==
              sequence(changeSets[next].changes, changeState.changeMap, World)
       IN /\ heap' = changeResults.w.heap
          /\ calls' = changeResults.w.calls
          /\ nextRef' = changeResults.w.nextRef
          /\ IF changeResults.err # ErrNone
             THEN /\ pc' = "rejected"
                  /\ error' = changeResults.err
                  /\ UNCHANGED << changeState, next >>
             ELSE /\ changeState' = update(changeState, changeResults.changes,
                                           changeResults.entries)
                  /\ next' = next + 1
                  /\ pc' = pc
                  /\ error' = error
    /\ UNCHANGED clientVars
    /\ UNCHANGED << remote, requests, truncated, changeSets, dry, cachedBaseBranch,
                    latestCommit, existingChangesState, completion >>

\* commit(): nothing changed, so no commit is made
CommitNoChanges ==
    /\ pc = "apply"
    /\ next > Len(changeSets)
    /\ equals(changeState, existingChangesState)
    /\ completion' = CommitCompletion(StageBranch, << >>, dry, NoRef)
    /\ pc' = "done"
    /\ UNCHANGED clientVars
    /\ UNCHANGED << remote, requests, truncated, changeSets, dry, cachedBaseBranch,
                    latestCommit, existingChangesState, changeState, next,
                    heap, nextRef, calls, error >>

\* Stage.createCommit returning no Ref in a dry run
MissingPlaceholderRef == [present |-> FALSE, ref |-> << >>, sha |-> ""]

\* Stage.createCommit in a dry run: a placeholder Ref, no repository call
PlaceholderRef ==
    [present |-> TRUE, ref |-> << "refs", "heads", StageBranch >>,
     sha |-> "n/a"]

\* The Ref that Repository.createCommit resolves to
CreatedRef ==
    [present |-> TRUE, ref |-> << "refs", "heads", StageBranch >>,
     sha |-> "new commit"]

CommitDryRun ==
    /\ pc = "apply"
    /\ next > Len(changeSets)
    /\ ~equals(changeState, existingChangesState)
    /\ dry
    /\ completion' = CommitCompletion(StageBranch, changeState.entries, dry,
                                      PlaceholderRef)
    /\ pc' = "done"
    /\ UNCHANGED clientVars
    /\ UNCHANGED << remote, requests, truncated, changeSets, dry, cachedBaseBranch,
                    latestCommit, existingChangesState, changeState, next,
                    heap, nextRef, calls, error >>

\* Stage.createCommit creating the branch while change sets are still to be
\* applied
CommitCreateBranchEarly ==
    /\ pc = "apply"
    /\ ~equals(changeState, existingChangesState)
    /\ ~dry
    /\ calls' = Append(calls, [fn |-> "createBranch", branch |-> StageBranch,
                               from |-> StageBaseBranch])
    /\ \E created \in { createBranch(StageBranch, StageBaseBranch,
                                       [remote |-> remote,
                                        requests |-> requests,
                                        script |-> script]) } :
          /\ remote' = created.s.remote
          /\ requests' = created.s.requests
          /\ script' = created.s.script
          /\ IF created.err # ErrNone
             THEN pc' = "rejected" /\ error' = created.err
             ELSE pc' = "createCommit" /\ error' = error
    /\ UNCHANGED << pages, task, outcomes >>
    /\ UNCHANGED << truncated, changeSets, dry, cachedBaseBranch,
                    latestCommit, existingChangesState, changeState, next,
                    heap, nextRef, completion >>

\* Stage.createCommit: await this.#repository.createBranch(branch, baseBranch)
CommitCreateBranch ==
    /\ pc = "apply"
    /\ next > Len(changeSets)
    /\ ~equals(changeState, existingChangesState)
    /\ ~dry
    /\ calls' = Append(calls, [fn |-> "createBranch", branch |-> StageBranch,
                               from |-> StageBaseBranch])
    /\ \E created \in { createBranch(StageBranch, StageBaseBranch,
                                       [remote |-> remote,
                                        requests |-> requests,
                                        script |-> script]) } :
          /\ remote' = created.s.remote
          /\ requests' = created.s.requests
          /\ script' = created.s.script
          /\ IF created.err # ErrNone
             THEN pc' = "rejected" /\ error' = created.err
             ELSE pc' = "createCommit" /\ error' = error
    /\ UNCHANGED << pages, task, outcomes >>
    /\ UNCHANGED << truncated, changeSets, dry, cachedBaseBranch,
                    latestCommit, existingChangesState, changeState, next,
                    heap, nextRef, completion >>

\* The delta argument of Repository.createCommit left at its default
StageDeltaDefault == TRUE

\* Stage.createCommit: the delta argument it passes to
\* Repository.createCommit
StageDelta == FALSE

\* Stage.createCommit: await this.#repository.createCommit(branch, message,
\* changes, false), and the CommitCompletion built from its Ref
CommitCreateCommit ==
    /\ pc = "createCommit"
    /\ calls' = Append(calls, [fn |-> "createCommit", branch |-> StageBranch,
                               changes |-> toChangeList(changeState, heap),
                               delta |-> StageDelta])
    /\ \E committed \in { createCommit(StageBranch,
                                         toChangeList(changeState, heap),
                                         StageDelta,
                                         [remote |-> remote,
                                          requests |-> requests,
                                          script |-> script]) } :
          /\ remote' = committed.s.remote
          /\ requests' = committed.s.requests
          /\ script' = committed.s.script
          /\ IF committed.err # ErrNone
             THEN /\ pc' = "rejected"
                  /\ error' = committed.err
                  /\ completion' = completion
             ELSE /\ completion' = CommitCompletion(StageBranch,
                                                    changeState.entries, dry,
                                                    CreatedRef)
                  /\ pc' = "done"
                  /\ error' = error
    /\ UNCHANGED << pages, task, outcomes >>
    /\ UNCHANGED << truncated, changeSets, dry, cachedBaseBranch,
                    latestCommit, existingChangesState, changeState, next,
                    heap, nextRef >>

Next ==
    \/ \E enabled \in BOOLEAN : DryRun(enabled)
    \/ \E a \in AddInputs : AddFile(a.path, a.content, a.mode)
    \/ \E l \in LocalFilesInputs : AddLocalFiles(l.files, l.basePath)
    \/ \E m \in ModifyFileInputs : ModifyFile(m.predicate, m.modifier)
    \/ \E m \in ModifyFilesInputs : ModifyFiles(m.predicate, m.modifier)
    \/ \E path \in DeleteInputs : DeleteFile(path)
    \/ \E m \in MoveInputs : MoveFile(m[1], m[2])
    \/ CommitGetBaseBranch
    \/ CommitGetLatestCommit
    \/ CommitGetTree
    \/ CommitApply
    \/ CommitNoChanges
    \/ CommitDryRun
    \/ CommitCreateBranch
    \/ CommitCreateCommit

Spec == Init /\ [][Next]_vars

----------------------------------------------------------------------------
\* The same session against a remote that may fail a call.  A failed call
\* rejects the promise commit() awaits, so commit() rejects with its error.

\* commit(): await this.getBaseBranch(), the getBranch request failing
FailGetBaseBranch ==
    /\ pc = "staging"
    /\ calls' = Append(calls, [fn |-> "getBranch", branch |-> StageBranch,
                               failed |-> TRUE])
    /\ pc' = "rejected"
    /\ error' = ErrRemote
    /\ UNCHANGED clientVars
    /\ UNCHANGED << remote, requests, truncated, changeSets, dry, cachedBaseBranch,
                    latestCommit, existingChangesState, changeState, next,
                    heap, nextRef, completion >>

\* commit(): await getLatestCommitToBranch(baseBranch), a request failing
FailGetLatestCommit ==
    /\ pc = "getLatestCommit"
    /\ calls' = Append(calls, [fn |-> "getLatestCommitToBranch",
                               branch |-> cachedBaseBranch, failed |-> TRUE])
    /\ pc' = "rejected"
    /\ error' = ErrRemote
    /\ UNCHANGED clientVars
    /\ UNCHANGED << remote, requests, truncated, changeSets, dry, cachedBaseBranch,
                    latestCommit, existingChangesState, changeState, next,
                    heap, nextRef, completion >>

\* commit(): await getTree(latestCommit), the request failing
FailGetTree ==
    /\ pc = "getTree"
    /\ calls' = Append(calls, [fn |-> "getTree",
                               branch |-> latestCommit.branch,
                               failed |-> TRUE])
    /\ pc' = "rejected"
    /\ error' = ErrRemote
    /\ UNCHANGED clientVars
    /\ UNCHANGED << remote, requests, truncated, changeSets, dry, cachedBaseBranch,
                    latestCommit, existingChangesState, changeState, next,
                    heap, nextRef, completion >>

\* commit(): one round of the reduce in which the k-th Repository call of
\* the change set (a createBlob or a getFilesWithContent) fails; no call
\* fails when k is 0 or the change set makes fewer than k calls.
ApplyRound(k) ==
    /\ pc = "apply"
    /\ next <= Len(changeSets)
    /\ LET failAt == IF k = 0 THEN 0 ELSE RepoCalls(calls) + k
           changeResults ==
              sequence(changeSets[next].changes, changeState.changeMap,
                       [World EXCEPT !.failAt = failAt])
       IN /\ heap' = changeResults.w.heap
          /\ calls' = changeResults.w.calls
          /\ nextRef' = changeResults.w.nextRef
          /\ IF changeResults.err # ErrNone
             THEN /\ pc' = "rejected"
                  /\ error' = changeResults.err
                  /\ UNCHANGED << changeState, next >>
             ELSE /\ changeState' = update(changeState, changeResults.changes,
                                           changeResults.entries)
                  /\ next' = next + 1
                  /\ pc' = pc
                  /\ error' = error
    /\ UNCHANGED clientVars
    /\ UNCHANGED << remote, requests, truncated, changeSets, dry,
                    cachedBaseBranch, latestCommit, existingChangesState,
                    completion >>

NextFail ==
    \/ \E enabled \in BOOLEAN : DryRun(enabled)
    \/ \E a \in AddInputs : AddFile(a.path, a.content, a.mode)
    \/ \E l \in LocalFilesInputs : AddLocalFiles(l.files, l.basePath)
    \/ \E m \in ModifyFileInputs : ModifyFile(m.predicate, m.modifier)
    \/ \E m \in ModifyFilesInputs : ModifyFiles(m.predicate, m.modifier)
    \/ \E path \in DeleteInputs : DeleteFile(path)
    \/ \E m \in MoveInputs : MoveFile(m[1], m[2])
    \/ CommitGetBaseBranch
    \/ FailGetBaseBranch
    \/ CommitGetLatestCommit
    \/ FailGetLatestCommit
    \/ CommitGetTree
    \/ FailGetTree
    \/ \E k \in 0..MaxGroupCalls : ApplyRound(k)
    \/ CommitNoChanges
    \/ CommitDryRun
    \/ CommitCreateBranch
    \/ CommitCreateCommit

SpecFail == Init /\ [][NextFail]_vars

----------------------------------------------------------------------------
\* The same session against a remote that may fail one of the requests of
\* createBranch and createCommit, while another client of the repository
\* may commit to the target branch.

\* The most requests the remote answers before it fails one
MaxPasses == 8

\* nock scripts of createBranch and createCommit: every request answered,
\* or the request after n answered ones failed with a 500
WriteScripts ==
    { << >> } \cup
    { [i \in 1..(n + 1) |-> IF i <= n THEN Pass ELSE ServerError] :
        n \in 0..MaxPasses }

\* The target branch missing, existing, and existing next to a branch named
\* like the repository
RemoteStatesWrite ==
    { Remote(Branch(TreeWithDir), NoBranch, NoBranch),
      Remote(Branch(TreeEmpty), Branch(TreeFlat), NoBranch),
      Remote(Branch(TreeEmpty), Branch(TreeFlat), Branch(TreeEmpty)) }

InitWrite ==
    /\ remote \in RemoteStatesWrite
    /\ truncated = FALSE
    /\ StageInit
    /\ script \in WriteScripts
    /\ pages = << >>
    /\ task = Idle
    /\ outcomes = << >>

\* The file the other client commits
WriterPath == << "w" >>

WriterChanges ==
    << [path |-> WriterPath, sha |-> blobSha(ContentYo),
        mode |-> ObjectModeFile, type |-> ObjectTypeBlob] >>

\* Another client calls Repository.createCommit(branch, message, changes) on
\* the target branch, once, after this session has fetched its base commit
\* and before it has written its own: the branch moves to a commit whose
\* tree is the tree it had with the client's file added.
OtherWriterCommits ==
    /\ pc \in {"getTree", "apply", "createCommit"}
    /\ remote[StageBranch].exists
    /\ \A i \in 1..Len(remote[StageBranch].tree) :
          remote[StageBranch].tree[i].path # WriterPath
    /\ remote' = [remote EXCEPT ![StageBranch] =
                     Branch(remote[StageBranch].tree \o TreeOf(WriterChanges))]
    /\ UNCHANGED clientVars
    /\ UNCHANGED << requests, truncated, changeSets, dry, cachedBaseBranch, pc,
                    latestCommit, existingChangesState, changeState, next,
                    heap, nextRef, calls, completion, error >>

\* The most change sets of a session
MaxWriteOps == 1

Building == Len(changeSets) < MaxWriteOps

NextWrite ==
    \/ \E enabled \in BOOLEAN : DryRun(enabled)
    \/ Building /\ \E a \in AddInputs : AddFile(a.path, a.content, a.mode)
    \/ Building /\ \E l \in LocalFilesInputs : AddLocalFiles(l.files, l.basePath)
    \/ Building /\ \E m \in ModifyFileInputs : ModifyFile(m.predicate, m.modifier)
    \/ Building /\ \E m \in ModifyFilesInputs : ModifyFiles(m.predicate, m.modifier)
    \/ Building /\ \E path \in DeleteInputs : DeleteFile(path)
    \/ Building /\ \E m \in MoveInputs : MoveFile(m[1], m[2])
    \/ CommitGetBaseBranch
    \/ CommitGetLatestCommit
    \/ CommitGetTree
    \/ CommitApply
    \/ CommitNoChanges
    \/ CommitDryRun
    \/ CommitCreateBranch
    \/ CommitCreateCommit
    \/ OtherWriterCommits

SpecWrite == InitWrite /\ [][NextWrite]_vars

----------------------------------------------------------------------------
\* Vocabulary of the properties

\* A snapshot as a set of path->entry pairs: each key with the sha, mode and
\* kind of the object it maps to.
SnapshotOf(changes, h) ==
    { [path |-> changes.ents[i].key, sha |-> h[changes.ents[i].obj].sha,
       mode |-> h[changes.ents[i].obj].mode,
       type |-> h[changes.ents[i].obj].type] : i \in 1..Len(changes.ents) }

\* The base snapshot as it was fetched
BaseSnapshot ==
    { [path |-> t.path, sha |-> t.sha, mode |-> t.mode, type |-> t.type] :
        t \in { BaseObjects(latestCommit.tree)[i] :
                  i \in 1..Len(BaseObjects(latestCommit.tree)) } }

FinalSnapshot == SnapshotOf(changeState.changeMap, heap)

CallsTo(fn) == { i \in 1..Len(calls) : calls[i].fn = fn }

\* commit() has resolved
Done == pc = "done"

\* commit() is about to apply change set i / has just applied change set i
Applying(i) == pc = "apply" /\ next = i /\ i <= Len(changeSets)
Applied(i) == pc = "apply" /\ next = i + 1 /\ i <= Len(changeSets)

\* The records the step added to the accumulated list
NewEntries ==
    SubSeq(changeState'.entries, Len(changeState.entries) + 1,
           Len(changeState'.entries))

----------------------------------------------------------------------------
\* C1: whenever commit() resolves with a final snapshot that has exactly the
\* path->entry pairs of the base snapshot, it has called neither createCommit
\* nor createBranch and the outcome has no ref.
C1_NetNoOpMakesNoCommit ==
    (Done /\ FinalSnapshot = BaseSnapshot) =>
        /\ CallsTo("createCommit") = {}
        /\ CallsTo("createBranch") = {}
        /\ ~completion.ref.present


\* An Add of content whose blob hash is the sha already stored at the path
IdempotentAdd(ap, changes, h) ==
    /\ ap.fn = "add"
    /\ In(ap.path, changes)
    /\ h[At(changes, ap.path)].sha = blobSha(ap.content)

AllIn(seq, Test(_)) == \A i \in 1..Len(seq) : Test(seq[i])

\* C2: a change set made of Adds whose content hashes to the sha already at
\* their path leaves the accumulated state (the same map object, the same
\* records), the heap and the call list as they were; and a session made only
\* of such Adds resolves without a ref, without createBlob and without
\* createCommit.
C2_StepUnchanged ==
    (/\ pc = "apply" /\ next <= Len(changeSets)
     /\ AllIn(changeSets[next].changes,
              LAMBDA ap : IdempotentAdd(ap, changeState.changeMap, heap)))
    => /\ changeState' = changeState
       /\ heap' = heap
       /\ calls' = calls
       /\ pc' = "apply"

C2_SessionNoOp ==
    (/\ Done
     /\ \A i \in 1..Len(changeSets) :
           AllIn(changeSets[i].changes,
                 LAMBDA ap : IdempotentAdd(ap, existingChangesState.changeMap,
                                           BaseHeap(latestCommit.tree))))
    => /\ ~hasChanges(completion)
       /\ completion.changes = << >>
       /\ CallsTo("createBlob") = {}
       /\ CallsTo("createCommit") = {}

C2_AddIdempotent == [][C2_StepUnchanged]_vars /\ []C2_SessionNoOp

C2_Witness ==
    /\ Done
    /\ Len(changeSets) >= 1
    /\ \A i \in 1..Len(changeSets) :
          AllIn(changeSets[i].changes,
                LAMBDA ap : IdempotentAdd(ap, existingChangesState.changeMap,
                                          BaseHeap(latestCommit.tree)))
    /\ ~hasChanges(completion)


\* A session of one addFile whose path is absent from the base snapshot or
\* holds another sha there
SingleEffectiveAdd ==
    /\ Len(changeSets) = 1
    /\ Len(changeSets[1].changes) = 1
    /\ changeSets[1].changes[1].fn = "add"
    /\ ~IdempotentAdd(changeSets[1].changes[1],
                      existingChangesState.changeMap,
                      BaseHeap(latestCommit.tree))

WriteCalls ==
    CallsTo("createBlob") \cup CallsTo("createBranch")
        \cup CallsTo("createCommit")

\* The change sets whose applicator reads file contents from the repository
SelectorSets ==
    { i \in 1..Len(changeSets) :
        changeSets[i].changes[1].fn \in {"modifyFile", "modifyFiles"} }

\* C4: while the dry-run flag is set, the call list never holds a createBlob,
\* createBranch or createCommit; and a commit() that resolved in a dry run
\* has looked up the branch, fetched the latest commit and its tree, in this
\* order, and has read the file contents once for every staged modifyFile or
\* modifyFiles.
C4_DryRunOnlyReads ==
    /\ dry => WriteCalls = {}
    /\ (Done /\ dry) =>
          /\ Len(calls) >= 3
          /\ calls[1].fn = "getBranch"
          /\ calls[2].fn = "getLatestCommitToBranch"
          /\ calls[3].fn = "getTree"
          /\ Cardinality(CallsTo("getFilesWithContent")) =
                Cardinality(SelectorSets)

\* A dry run of edits that change the snapshot, among them a modifyFiles
\* that matched files
C4_Witness ==
    /\ Done /\ dry
    /\ completion.changes # << >>
    /\ SelectorSets # {}
    /\ CallsTo("modifier") # {}
    /\ \E i \in 1..Len(changeSets) : changeSets[i].changes[1].fn = "add"


\* C5 as stated: a commit() that resolved in a dry run has an outcome
\* without a ref, for which hasChanges() is false.
C5_DryRunHasNoRef ==
    (Done /\ dry) => (~completion.ref.present /\ ~hasChanges(completion))

\* C5 as the code has it: a commit() that resolved in a dry run made no write
\* call and its outcome is marked dryRun; the outcome has no ref exactly when
\* no staged operator emitted a record, and otherwise carries the records and
\* the placeholder ref "refs/heads/<branch>" with sha "n/a", so that
\* hasChanges() is true.
C5_DryRunPlaceholderRef ==
    (Done /\ dry) =>
        /\ WriteCalls = {}
        /\ completion.dryRun
        /\ completion.branch = StageBranch
        /\ hasChanges(completion) <=> (changeState.entries # << >>)
        /\ hasChanges(completion) =>
              /\ completion.ref.ref = << "refs", "heads", StageBranch >>
              /\ completion.ref.sha = "n/a"
              /\ completion.changes = changeState.entries

\* A dry run of edits that are not no-ops
C5_Witness ==
    /\ Done /\ dry
    /\ hasChanges(completion)
    /\ FinalSnapshot # BaseSnapshot

\* C6: an outcome without a ref means that the final snapshot has exactly the
\* path->entry pairs of the base snapshot as fetched, and the outcome's record
\* list is empty.
C6_NoRefOnlyIfSnapshotsEqual ==
    (Done /\ ~completion.ref.present) =>
        /\ FinalSnapshot = BaseSnapshot
        /\ completion.changes = << >>

\* A session with staged operations that resolved without a ref
C6_Witness ==
    /\ Done
    /\ ~completion.ref.present
    /\ Len(changeSets) >= 1
    /\ BaseSnapshot # {}


\* The keys a deleteFile(p) is to remove: p itself and the keys below p
DeleteTargets(p, changes) ==
    { k \in KeySet(changes) : k = p \/ StartsWith(k, p \o Slash) }

\* C7: the step that applies deleteFile(p) removes from the snapshot exactly
\* the key p (if present) and the keys that begin with p + "/", adds exactly
\* one Delete record for each removed key and no other record, and leaves
\* every other key in place, in the same order, on the same unchanged object.
C7_Step ==
    (/\ pc = "apply" /\ next <= Len(changeSets)
     /\ changeSets[next].changes[1].fn = "deleteFile")
    => LET p == changeSets[next].changes[1].path
           before == changeState.changeMap
           after == changeState'.changeMap
           removed == DeleteTargets(p, before)
       IN /\ pc' = "apply"
          /\ KeySet(after) = KeySet(before) \ removed
          /\ after.ents = SelectSeq(before.ents, LAMBDA e : e.key \notin removed)
          /\ heap' = heap
          /\ Len(NewEntries) = Cardinality(removed)
          /\ { NewEntries[i].src : i \in 1..Len(NewEntries) } = removed
          /\ \A i \in 1..Len(NewEntries) : NewEntries[i].type = ChangeTypeDelete
          /\ SubSeq(changeState'.entries, 1, Len(changeState.entries)) =
                changeState.entries

C7_DeleteFileCascade == [][C7_Step]_vars

\* deleteFile("a") applied to a snapshot that has "a", "a/x", "a/y" and
\* "ab/x": the first three are gone, each with its Delete record, and "ab/x"
\* is still there.
C7_Witness ==
    /\ Applied(2)
    /\ changeSets[1].changes[1] = ApAdd(PathA, ContentYo, ObjectModeFile)
    /\ changeSets[2].changes[1] = ApDeleteFile(PathA)
    /\ KeySet(existingChangesState.changeMap) = {PathAX, PathAY, PathABX}
    /\ KeySet(changeState.changeMap) = {PathABX}
    /\ Len(changeState.entries) = 4

\* A deleteFile of a path that the snapshot holds neither itself nor anything
\* below
AbsentDelete(ap, changes) ==
    /\ ap.fn = "deleteFile"
    /\ DeleteTargets(ap.path, changes) = {}

\* C8: the step that applies a deleteFile of a path that is not in the
\* snapshot and has nothing below it leaves the accumulated state (the same
\* map object, the same records), the heap and the call list as they were;
\* and a session made only of such deletes resolves without a ref, without
\* records and without createBranch or createCommit.
C8_Step ==
    (/\ pc = "apply" /\ next <= Len(changeSets)
     /\ AbsentDelete(changeSets[next].changes[1], changeState.changeMap))
    => /\ changeState' = changeState
       /\ heap' = heap
       /\ calls' = calls
       /\ pc' = "apply"

C8_SessionNoOp ==
    (/\ Done
     /\ \A i \in 1..Len(changeSets) :
           AbsentDelete(changeSets[i].changes[1],
                        existingChangesState.changeMap))
    => /\ ~completion.ref.present
       /\ completion.changes = << >>
       /\ WriteCalls = {}

C8_DeleteAbsentIsNoOp == [][C8_Step]_vars /\ []C8_SessionNoOp

C8_Witness ==
    /\ Done
    /\ Len(changeSets) >= 1
    /\ BaseSnapshot # {}
    /\ \A i \in 1..Len(changeSets) :
          AbsentDelete(changeSets[i].changes[1],
                       existingChangesState.changeMap)
    /\ ~completion.ref.present

\* C9: once commit() has applied the session moveFile("a", "b") to the
\* snapshot built from a tree that lists the subtree "a" with "a/x" and "a/y"
\* below it, the snapshot has "b/x" and "b/y" and no key equal to "a" or
\* beginning with "a/", and the records hold a Move for each of the two
\* descendants.
C9_MoveDirectory ==
    (/\ Applied(1)
     /\ Len(changeSets) = 1
     /\ changeSets[1].changes[1] = ApMoveFile(PathA, PathB)
     /\ latestCommit.tree = TreeWithDir)
    => /\ {PathBX, PathBY} \subseteq KeySet(changeState.changeMap)
       /\ \A k \in KeySet(changeState.changeMap) :
             k # PathA /\ ~StartsWith(k, PathA \o Slash)
       /\ \E i \in 1..Len(changeState.entries) :
             changeState.entries[i] =
                [type |-> ChangeTypeMove, src |-> PathAX, dest |-> PathBX]
       /\ \E i \in 1..Len(changeState.entries) :
             changeState.entries[i] =
                [type |-> ChangeTypeMove, src |-> PathAY, dest |-> PathBY]

\* C10: the step that applies moveFile(from, to) to a snapshot without the
\* key from adds no record, keeps the same map object with the same keys and
\* objects, makes no call, and commit() goes on to the next change set.
C10_Step ==
    (/\ pc = "apply" /\ next <= Len(changeSets)
     /\ changeSets[next].changes[1].fn = "moveFile"
     /\ ~In(changeSets[next].changes[1].src, changeState.changeMap))
    => /\ changeState' = changeState
       /\ heap' = heap
       /\ calls' = calls
       /\ pc' = "apply"
       /\ next' = next + 1
       /\ error' = ErrNone

C10_MoveAbsentIsNoOp == [][C10_Step]_vars

\* moveFile("a/x", "b/x") after a deleteFile("a/x") that removed the source
C10_Witness ==
    /\ Applied(2)
    /\ changeSets[1].changes[1] = ApDeleteFile(PathAX)
    /\ changeSets[2].changes[1] = ApMoveFile(PathAX, PathBX)
    /\ In(PathAX, existingChangesState.changeMap)
    /\ ~In(PathAX, changeState.changeMap)
    /\ ~In(PathBX, changeState.changeMap)
    /\ changeState.entries = << [type |-> ChangeTypeDelete, src |-> PathAX] >>

\* C11: the step that applies moveFile(from, to), from other than to, to a
\* snapshot that has a non-tree entry at from leaves a snapshot without the
\* key from, whose entry at to has the sha, mode and kind the entry at from
\* had and the path to; it adds exactly the record Move {from, to} and makes
\* no createBlob call.
C11_Step ==
    (/\ pc = "apply" /\ next <= Len(changeSets)
     /\ changeSets[next].changes[1].fn = "moveFile"
     /\ changeSets[next].changes[1].src # changeSets[next].changes[1].dest
     /\ In(changeSets[next].changes[1].src, changeState.changeMap)
     /\ heap[At(changeState.changeMap,
                changeSets[next].changes[1].src)].type # ObjectTypeTree)
    => LET src == changeSets[next].changes[1].src
           dest == changeSets[next].changes[1].dest
           moved == heap[At(changeState.changeMap, src)]
       IN /\ pc' = "apply"
          /\ ~In(src, changeState'.changeMap)
          /\ In(dest, changeState'.changeMap)
          /\ heap'[At(changeState'.changeMap, dest)] =
                [path |-> dest, sha |-> moved.sha, mode |-> moved.mode,
                 type |-> moved.type]
          /\ NewEntries =
                << [type |-> ChangeTypeMove, src |-> src, dest |-> dest] >>
          /\ { i \in 1..Len(calls') : calls'[i].fn = "createBlob" } =
                CallsTo("createBlob")

C11_MoveRekeysEntry == [][C11_Step]_vars

\* moveFile("a/x", "a/y") onto an occupied destination: the entry of "a/x"
\* now sits at "a/y" and "a/x" is gone
C11_Witness ==
    /\ Applied(1)
    /\ changeSets[1].changes[1] = ApMoveFile(PathAX, PathAY)
    /\ In(PathAX, existingChangesState.changeMap)
    /\ ~In(PathAX, changeState.changeMap)
    /\ In(PathAY, changeState.changeMap)
    /\ heap[At(changeState.changeMap, PathAY)].path = PathAY
    /\ heap[At(changeState.changeMap, PathAY)].sha = blobSha(ContentHi)
    /\ changeState.entries =
          << [type |-> ChangeTypeMove, src |-> PathAX, dest |-> PathAY] >>

\* A change set pushed by addFile(p, ...)
SingleAddOf(changeSet, p) ==
    /\ Len(changeSet.changes) = 1
    /\ changeSet.changes[1].fn = "add"
    /\ changeSet.changes[1].path = p

\* C12: the change sets are applied one at a time in the order they were
\* pushed, each to the map the one before it produced, and the records are
\* appended in that order; so addFile(p) then deleteFile(p) ends without p,
\* and deleteFile(p) then addFile(p) ends with p holding the added content.
C12_Step ==
    /\ next' # next =>
          /\ pc = "apply" /\ next <= Len(changeSets) /\ next' = next + 1
          /\ changeSets' = changeSets
          /\ LET r == sequence(changeSets[next].changes,
                               changeState.changeMap, World)
             IN /\ changeState'.changeMap = r.changes
                /\ changeState'.entries = changeState.entries \o r.entries
    /\ (changeState' # changeState /\ pc = "apply") => next' = next + 1
    /\ pc \notin {"staging"} => changeSets' = changeSets

C12_Examples ==
    (pc = "apply" /\ Len(changeSets) = 2 /\ next = 3) =>
       \A p \in DeleteInputs :
          /\ (/\ SingleAddOf(changeSets[1], p)
              /\ changeSets[2].changes[1] = ApDeleteFile(p))
             => ~In(p, changeState.changeMap)
          /\ (/\ changeSets[1].changes[1] = ApDeleteFile(p)
              /\ SingleAddOf(changeSets[2], p))
             => /\ In(p, changeState.changeMap)
                /\ heap[At(changeState.changeMap, p)].sha =
                      blobSha(changeSets[2].changes[1].content)

C12_PushOrder == [][C12_Step]_vars /\ []C12_Examples

\* deleteFile("b") then addFile("b", "hi") on a base that has "b" with that
\* content: the delete ran first, so the add was not a no-op
C12_Witness ==
    /\ Applied(2)
    /\ changeSets[1].changes[1] = ApDeleteFile(PathB)
    /\ changeSets[2].changes[1] = ApAdd(PathB, ContentHi, ObjectModeFile)
    /\ In(PathB, existingChangesState.changeMap)
    /\ In(PathB, changeState.changeMap)
    /\ Len(changeState.entries) = 2
    /\ changeState.entries[1] = [type |-> ChangeTypeDelete, src |-> PathB]
    /\ changeState.entries[2].type = ChangeTypeAdd

\* C13: once getTree has answered with a truncated tree, commit() is
\* rejected with the truncation error and stays so: no change set has been
\* applied, no modifier callback has run, no file content has been read and
\* no createBlob, createBranch or createCommit call has been made.
C13_TruncatedTreeAborts ==
    (truncated /\ pc \notin {"staging", "getLatestCommit", "getTree"}
       /\ CallsTo("getTree") # {})
    => /\ pc = "rejected"
       /\ error = ErrTruncated
       /\ next = 1
       /\ changeState = NoState
       /\ completion = NoCompletion
       /\ \A i \in 1..Len(calls) :
             calls[i].fn \notin {"modifier", "getFilesWithContent",
                                 "createBlob", "createBranch", "createCommit"}

\* a truncated tree met by a session that staged an add and a modifyFile
C13_Witness ==
    /\ truncated
    /\ pc = "rejected"
    /\ error = ErrTruncated
    /\ ~dry
    /\ Len(changeSets) = 2
    /\ changeSets[1].changes[1].fn = "add"
    /\ changeSets[2].changes[1].fn = "modifyFile"
    /\ calls[Len(calls)].fn = "getTree"

\* The files of the base branch that the selector of a staged modifyFile or
\* modifyFiles matches
SelectedFiles(ap) ==
    LET pred == IF isPredicate(ap.predicate)
                THEN ap.predicate
                ELSE pathEquals(ap.predicate.path)
    IN SelectSeq(remote[cachedBaseBranch].tree,
                 LAMBDA to : /\ to.type \in {ObjectTypeBlob, ObjectTypeCommit}
                             /\ Holds(pred, to))

\* C14: the step that applies a modifyFile or modifyFiles whose selector
\* matches no file of the base branch adds no record, leaves the snapshot as
\* it was, and commit() goes on to the next change set without an error.
C14_Step ==
    (/\ pc = "apply" /\ next <= Len(changeSets)
     /\ changeSets[next].changes[1].fn \in {"modifyFile", "modifyFiles"}
     /\ SelectedFiles(changeSets[next].changes[1]) = << >>)
    => /\ changeState' = changeState
       /\ heap' = heap
       /\ pc' = "apply"
       /\ next' = next + 1
       /\ error' = ErrNone

C14_SelectorMissIsSkipped == [][C14_Step]_vars

\* C15: the base branch is resolved once, to the target branch if it exists
\* remotely and to the configured base branch otherwise, with one getBranch
\* call; every file-content read goes to that branch, and every modifier
\* callback is handed the content its file has on that branch, whatever the
\* change sets applied before it did to the path.
C15_Step ==
    /\ cachedBaseBranch' # cachedBaseBranch =>
          /\ cachedBaseBranch = ""
          /\ cachedBaseBranch' = IF remote[StageBranch].exists
                                 THEN StageBranch ELSE StageBaseBranch
    /\ \A i \in (Len(calls) + 1)..Len(calls') :
          /\ calls'[i].fn = "getBranch" =>
                /\ CallsTo("getBranch") = {}
                /\ calls'[i].branch = StageBranch
          /\ calls'[i].fn = "getFilesWithContent" =>
                /\ cachedBaseBranch # ""
                /\ calls'[i].branch = cachedBaseBranch
          /\ calls'[i].fn = "modifier" =>
                \E j \in 1..Len(remote[cachedBaseBranch].tree) :
                   /\ remote[cachedBaseBranch].tree[j].path = calls'[i].path
                   /\ remote[cachedBaseBranch].tree[j].content =
                         calls'[i].content

C15_ModifierReadsBaseBranch == [][C15_Step]_vars

\* addFile("a/x", "yo") then modifyFile("a/x", append) on an existing target
\* branch whose "a/x" holds "hi": the callback was handed "hi"
C15_Witness ==
    /\ Applied(2)
    /\ remote[StageBranch].exists
    /\ cachedBaseBranch = StageBranch
    /\ changeSets[1].changes[1] = ApAdd(PathAX, ContentYo, ObjectModeFile)
    /\ changeSets[2].changes[1].fn = "modifyFile"
    /\ heap[At(existingChangesState.changeMap, PathAX)].sha =
          blobSha(ContentHi)
    /\ calls[Len(calls)].fn \in {"modifier", "createBlob"}
    /\ \E i \in CallsTo("modifier") :
          calls[i].path = PathAX /\ calls[i].content = ContentHi

\* The call was answered with a failure
Failed(call) == "failed" \in DOMAIN call

FailableCalls ==
    {"getBranch", "getLatestCommitToBranch", "getTree", "createBlob",
     "getFilesWithContent"}

\* C16: when a getBranch, getLatestCommitToBranch, getTree, createBlob or
\* getFilesWithContent call fails, commit() is rejected with that error in
\* the same step and nothing happens afterwards: the failed call is the last
\* call made and the only failed one, the accumulated state and the index of
\* the next change set are as they were before the step, and createBranch
\* and createCommit are never called.
C16_Step ==
    /\ (\E i \in (Len(calls) + 1)..Len(calls') : Failed(calls'[i])) =>
          /\ pc' = "rejected"
          /\ error' = ErrRemote
          /\ changeState' = changeState
          /\ next' = next
    /\ pc = "rejected" => UNCHANGED vars

C16_Rejected ==
    (\E i \in 1..Len(calls) : Failed(calls[i])) =>
       /\ pc = "rejected"
       /\ error = ErrRemote
       /\ completion = NoCompletion
       /\ Failed(calls[Len(calls)])
       /\ calls[Len(calls)].fn \in FailableCalls
       /\ \A i \in 1..(Len(calls) - 1) : ~Failed(calls[i])
       /\ CallsTo("createBranch") = {}
       /\ CallsTo("createCommit") = {}

C16_RemoteFailureAborts == [][C16_Step]_vars /\ []C16_Rejected

\* the second createBlob of the first of two change sets failed: the first
\* createBlob stays the only other write and the second change set is never
\* applied
C16_Witness ==
    /\ pc = "rejected"
    /\ error = ErrRemote
    /\ Len(changeSets) = 2
    /\ next = 1
    /\ Cardinality(CallsTo("createBlob")) = 2
    /\ calls[Len(calls)].fn = "createBlob"
    /\ Failed(calls[Len(calls)])
    /\ ~Failed(calls[Len(calls) - 1])

\* The requests sent to create a tree
TreeRequests ==
    { i \in 1..Len(requests) :
        /\ requests[i].method = "POST"
        /\ requests[i].url = << "git", "trees" >> }

\* C17 as stated: when commit() has resolved outside a dry run with a ref,
\* a tree-creation request was sent whose base_tree is the sha of the base
\* tree and whose entries are the final entry list.
C17_TreeAgainstBaseTree ==
    (Done /\ ~dry /\ completion.ref.present) =>
       \E i \in TreeRequests :
          /\ "base_tree" \in DOMAIN requests[i].body
          /\ requests[i].body.base_tree = gitSha("tree", latestCommit.tree)
          /\ requests[i].body.tree = toChangeList(changeState, heap)

\* C17: when commit() has resolved outside a dry run with a ref,
\* createCommit was called with delta = false and exactly one tree-creation
\* request was sent: it has no base_tree and its entries are the whole final
\* entry list, so the new tree of the target branch has those paths only.
C17_TreeWithoutBaseTree ==
    (Done /\ ~dry /\ completion.ref.present) =>
       /\ \A i \in CallsTo("createCommit") : calls[i].delta = FALSE
       /\ Cardinality(TreeRequests) = 1
       /\ \A i \in TreeRequests :
             requests[i].body = [tree |-> toChangeList(changeState, heap)]
       /\ { remote[StageBranch].tree[j].path :
               j \in 1..Len(remote[StageBranch].tree) } =
             KeySet(changeState.changeMap)

\* deleteFile("a/x") committed on top of a base that has "a/x", "a/y" and
\* "ab/x": the tree request lists the two files that stay
C17_Witness ==
    /\ Done /\ ~dry /\ completion.ref.present
    /\ changeSets = << [changes |-> << ApDeleteFile(PathAX) >>] >>
    /\ latestCommit.tree = TreeWithDir
    /\ \E i \in TreeRequests :
          /\ DOMAIN requests[i].body = {"tree"}
          /\ Len(requests[i].body.tree) = 2
    /\ KeySet(changeState.changeMap) = {PathAY, PathABX}

\* The requests of a list that create a ref
RefCreations(reqs) ==
    { i \in 1..Len(reqs) :
        /\ reqs[i].method = "POST"
        /\ reqs[i].url = << "git", "refs" >> }

\* C18: the step of a non-dry-run commit that calls createBranch leaves the
\* target branch in existence and goes on to createCommit: a target branch
\* that did not exist is created at the latest commit of the base branch
\* with one ref-creation request, and for one that exists no ref-creation
\* request is sent and the branch stays as it is.
C18_Step ==
    (/\ pc = "apply"
     /\ Len(calls') = Len(calls) + 1
     /\ calls'[Len(calls')].fn = "createBranch")
    => /\ pc' = "createCommit"
       /\ remote'[StageBranch].exists
       /\ IF remote[StageBranch].exists
          THEN /\ RefCreations(requests') = {}
               /\ remote' = remote
          ELSE /\ Cardinality(RefCreations(requests')) = 1
               /\ remote'[StageBranch] = remote[StageBaseBranch]

C18_TargetBranchEnsured == [][C18_Step]_vars

\* C19: the step that applies a change set leaves every entry of the map it
\* was given with the path, sha, mode and kind it had; and from the moment
\* the base snapshot is built, through the comparison with the final
\* snapshot, each of its entries is as it was fetched, its path equal to its
\* key.
C19_Step ==
    (pc = "apply" /\ next <= Len(changeSets)) =>
       \A i \in 1..Len(changeState.changeMap.ents) :
          heap'[changeState.changeMap.ents[i].obj] =
             heap[changeState.changeMap.ents[i].obj]

C19_BaseUnchanged ==
    pc \in {"apply", "createCommit", "done"} =>
       \A i \in 1..Len(existingChangesState.changeMap.ents) :
          LET e == existingChangesState.changeMap.ents[i]
          IN /\ heap[e.obj] = BaseHeap(latestCommit.tree)[e.obj]
             /\ heap[e.obj].path = e.key

C19_OperatorsDoNotMutateInput == [][C19_Step]_vars /\ []C19_BaseUnchanged

\* C20: while the session is being built no call is made on the Repository
\* or on a modifier and no request is sent; a step of the builder either
\* sets the dry-run flag and leaves the change sets alone, or appends exactly
\* one change set after the ones already there and leaves everything else
\* alone; calls are first made by the step that starts commit().
C20_Step ==
    (pc = "staging" /\ pc' = "staging") =>
       /\ calls' = calls
       /\ requests' = requests
       /\ remote' = remote
       /\ UNCHANGED << cachedBaseBranch, latestCommit, existingChangesState,
                       changeState, next, heap, nextRef, completion, error >>
       /\ \/ changeSets' = changeSets
          \/ /\ dry' = dry
             /\ Len(changeSets') = Len(changeSets) + 1
             /\ SubSeq(changeSets', 1, Len(changeSets)) = changeSets

C20_NothingRunsYet ==
    pc = "staging" => calls = << >> /\ requests = << >>

C20_BuilderOnlyStages == [][C20_Step]_vars /\ []C20_NothingRunsYet

\* a modifyFile and an addFile staged in a dry-run session, commit() not yet
\* called
C20_Witness ==
    /\ pc = "staging"
    /\ dry
    /\ Len(changeSets) = 2
    /\ changeSets[1].changes[1].fn = "modifyFile"
    /\ changeSets[2].changes[1].fn = "add"
    /\ calls = << >>
    /\ heap = << >>

----------------------------------------------------------------------------
\* The step of commit() a call belongs to: 1 the branch lookup, 2 the fetch
\* of the latest commit, 3 the fetch of the tree, 4 the calls the operators
\* make (createBlob, the selector reads and the modifier callbacks),
\* 5 createBranch, 6 createCommit.
Phase(call) ==
    CASE call.fn = "getBranch" -> 1
      [] call.fn = "getLatestCommitToBranch" -> 2
      [] call.fn = "getTree" -> 3
      [] call.fn \in {"createBlob", "getFilesWithContent", "modifier"} -> 4
      [] call.fn = "createBranch" -> 5
      [] call.fn = "createCommit" -> 6

\* The equality decision of commit() has been taken and found a change
Decided ==
    /\ next > Len(changeSets)
    /\ ~equals(changeState, existingChangesState)

\* C22: within one commit() the calls follow the protocol order: the branch
\* lookup, the fetch of the latest commit and the fetch of the tree are made
\* once each, in this order, before any operator runs; every createBlob,
\* selector read and modifier callback precedes the equality decision;
\* createBranch and createCommit are made only after the decision found a
\* change and outside a dry run, at most once each and createBranch first;
\* and once the outcome is produced no call and no request is made.
C22_Ordered ==
    \A i, j \in 1..Len(calls) :
       i < j =>
          /\ Phase(calls[i]) <= Phase(calls[j])
          /\ Phase(calls[i]) = Phase(calls[j]) => Phase(calls[i]) = 4

C22_BaseFetched ==
    (pc \in {"apply", "createCommit", "done"} \/ CallsTo("createBlob") # {}
       \/ CallsTo("getFilesWithContent") # {} \/ CallsTo("modifier") # {}) =>
       /\ Len(calls) >= 3
       /\ Phase(calls[1]) = 1 /\ Phase(calls[2]) = 2 /\ Phase(calls[3]) = 3
       /\ latestCommit # NoCommit
       /\ existingChangesState # NoState

C22_DecidedBeforeWrite ==
    /\ (CallsTo("createBranch") # {} \/ requests # << >>) =>
          Decided /\ ~dry
    /\ CallsTo("createCommit") # {} => CallsTo("createBranch") # {}
    /\ Done =>
          /\ next > Len(changeSets)
          /\ hasChanges(completion) <=> Decided
          /\ (Decided /\ ~dry) <=> CallsTo("createCommit") # {}

C22_Step ==
    /\ pc \in {"done", "rejected"} =>
          calls' = calls /\ requests' = requests /\ pc' = pc
    /\ Decided => calls' = calls \/ Phase(calls'[Len(calls')]) >= 5

C22_ProtocolOrder ==
    /\ [][C22_Step]_vars
    /\ [](C22_Ordered /\ C22_BaseFetched /\ C22_DecidedBeforeWrite)

\* A committed session in which an operator created a blob: all six kinds
\* of call were made
C22_Witness ==
    /\ Done
    /\ CallsTo("createBlob") # {}
    /\ CallsTo("getFilesWithContent") # {}
    /\ CallsTo("createBranch") # {}
    /\ CallsTo("createCommit") # {}

----------------------------------------------------------------------------
\* The change set that the step applies is a group of Adds
AddGroup(changeSet) ==
    \A k \in 1..Len(changeSet.changes) : changeSet.changes[k].fn = "add"

\* C23: the record list of the outcome is the concatenation, in push order,
\* of the records of every change set: the list is empty before the first
\* change set, every round keeps the records it found and appends its own,
\* and the outcome carries the accumulated list.  Within the records of one
\* deleteFile(p) or moveFile(p, q) the record of p itself, if p was present,
\* comes first and every other record is of a path below p; within the
\* records of a group of Adds the records follow the order of the file list.
C23_Step ==
    (pc = "apply" /\ next <= Len(changeSets) /\ next' = next + 1) =>
       LET group == changeSets[next].changes
           before == changeState.changeMap
           new == NewEntries
       IN /\ Len(changeState'.entries) >= Len(changeState.entries)
          /\ SubSeq(changeState'.entries, 1, Len(changeState.entries)) =
                changeState.entries
          /\ group[1].fn = "deleteFile" =>
                /\ In(group[1].path, before) =>
                      new # << >> /\ new[1].src = group[1].path
                /\ \A i \in 1..Len(new) :
                      /\ new[i].type = ChangeTypeDelete
                      /\ new[i].src = group[1].path => i = 1
                      /\ i > 1 => StartsWith(new[i].src, group[1].path \o Slash)
          /\ group[1].fn = "moveFile" =>
                /\ In(group[1].src, before) =>
                      /\ new # << >>
                      /\ new[1].src = group[1].src
                      /\ new[1].dest = group[1].dest
                /\ \A i \in 1..Len(new) :
                      /\ new[i].type = ChangeTypeMove
                      /\ new[i].src = group[1].src => i = 1
                      /\ i > 1 => StartsWith(new[i].src, group[1].src \o Slash)
          /\ AddGroup(changeSets[next]) =>
                \E at \in [1..Len(new) -> 1..Len(group)] :
                   /\ \A i, j \in 1..Len(new) : i < j => at[i] < at[j]
                   /\ \A i \in 1..Len(new) :
                         /\ new[i].type = ChangeTypeAdd
                         /\ new[i].dest = group[at[i]].path
                         /\ new[i].destContent = group[at[i]].content

C23_Outcome ==
    /\ (pc = "apply" /\ next = 1) => changeState.entries = << >>
    /\ (Done /\ hasChanges(completion)) =>
          completion.changes = changeState.entries
    /\ (Done /\ ~hasChanges(completion)) => completion.changes = << >>

C23_RecordOrder == [][C23_Step]_vars /\ []C23_Outcome

\* addFile("a") on a base with files below "a", then deleteFile("a"),
\* committed: the record of the add, then the record of "a" and after it the
\* records of the files below it
C23_Witness ==
    /\ Done
    /\ ~dry
    /\ Len(changeSets) = 2
    /\ changeSets[1].changes[1] = ApAdd(PathA, ContentYo, ObjectModeFile)
    /\ changeSets[2].changes[1] = ApDeleteFile(PathA)
    /\ Len(completion.changes) >= 3
    /\ completion.changes[1].type = ChangeTypeAdd
    /\ completion.changes[2] = [type |-> ChangeTypeDelete, src |-> PathA]
    /\ completion.changes[3].type = ChangeTypeDelete
    /\ StartsWith(completion.changes[3].src, PathA \o Slash)

\* An addLocalFiles group that emitted a record for each of its two files
C23_WitnessLocalFiles ==
    /\ Applied(1)
    /\ Len(changeSets[1].changes) = 2
    /\ AddGroup(changeSets[1])
    /\ Len(changeState.entries) = 2
    /\ changeState.entries[1].dest = changeSets[1].changes[1].path
    /\ changeState.entries[2].dest = changeSets[1].changes[2].path

----------------------------------------------------------------------------
\* commit() has resolved outside a dry run with a new commit
Committed == Done /\ ~dry /\ completion.ref.present

\* The tree of the latest commit of the target branch, entry by entry
CommittedTree ==
    { [path |-> t.path, sha |-> t.sha, mode |-> t.mode, type |-> t.type] :
        t \in { remote[StageBranch].tree[j] :
                  j \in 1..Len(remote[StageBranch].tree) } }

\* The paths a record takes away from the snapshot and the paths it puts
\* into it
Removes(record, p) ==
    /\ record.type \in {ChangeTypeDelete, ChangeTypeMove}
    /\ record.src = p
    /\ record.type = ChangeTypeMove => record.dest # p

Puts(record, p) ==
    /\ record.type \in {ChangeTypeAdd, ChangeTypeMove, ChangeTypeModify}
    /\ record.dest = p

\* Paths that the session deleted or moved away for good, and paths that no
\* record names
RemovedPaths ==
    { completion.changes[i].src :
        i \in { k \in 1..Len(completion.changes) :
                  /\ "src" \in DOMAIN completion.changes[k]
                  /\ Removes(completion.changes[k], completion.changes[k].src)
                  /\ \A j \in (k + 1)..Len(completion.changes) :
                        ~Puts(completion.changes[j], completion.changes[k].src) } }

Touched(p) ==
    \E i \in 1..Len(completion.changes) :
       \/ Puts(completion.changes[i], p)
       \/ /\ "src" \in DOMAIN completion.changes[i]
          /\ completion.changes[i].src = p

\* C24: after commit() has resolved outside a dry run with a new commit, the
\* tree of the latest commit of the target branch has exactly the path->entry
\* pairs of the final snapshot; a path that the session deleted or moved away
\* (and did not put back afterwards) is not in that tree, and every entry of
\* the base snapshot whose path no record names is in it with its sha and
\* mode.
C24_CommittedTreeIsFinalSnapshot ==
    Committed =>
       /\ remote[StageBranch].exists
       /\ CommittedTree = FinalSnapshot
       /\ Len(remote[StageBranch].tree) = Cardinality(FinalSnapshot)
       /\ \A p \in RemovedPaths : \A t \in CommittedTree : t.path # p
       /\ \A b \in BaseSnapshot : ~Touched(b.path) => b \in CommittedTree

\* moveFile("a/x", "b/x") and deleteFile("a/y") committed on a base with
\* "a/x", "a/y" and "ab/x": the new tree has "b/x" and the untouched "ab/x"
C24_Witness ==
    /\ Committed
    /\ RemovedPaths = {PathAX, PathAY}
    /\ \E b \in BaseSnapshot : b.path = PathABX /\ b \in CommittedTree
    /\ { t.path : t \in CommittedTree } = {PathBX, PathABX}

----------------------------------------------------------------------------
\* The Adds of a group target pairwise distinct paths
DistinctPaths(group) ==
    \A i, j \in 1..Len(group) : i # j => group[i].path # group[j].path

Orders(n) ==
    { f \in [1..n -> 1..n] : \A i, j \in 1..n : i # j => f[i] # f[j] }

Permuted(group, f) == [i \in 1..Len(group) |-> group[f[i]]]

\* The snapshot that a group yields on the map and heap of the state
SnapshotAfter(group) ==
    LET r == sequence(group, changeState.changeMap, World)
    IN SnapshotOf(r.changes, r.w.heap)

\* Groups of three Adds on distinct paths, some of them no-ops on some bases
AddTriples ==
    { << ApAdd(PathAX, ContentYo, ObjectModeFile),
         ApAdd(PathB, ContentHi, ObjectModeFile),
         ApAdd(PathZ, ContentHi, ObjectModeExecutable) >>,
      << ApAdd(PathA, ContentHi, ObjectModeFile),
         ApAdd(PathAX, ContentHi, ObjectModeFile),
         ApAdd(PathAY, ContentHi, ObjectModeFile) >> }

\* C25: a group of Adds on pairwise distinct paths yields the same
\* path->entry pairs in whatever order its members are applied.  The step
\* that applies such a group ends in the snapshot that every permutation of
\* the group yields, having changed the entries of the group's paths only;
\* and on every map that commit() reaches, every permutation of a group of
\* three such Adds yields the same snapshot.
C25_Step ==
    (/\ pc = "apply" /\ next <= Len(changeSets) /\ next' = next + 1
     /\ AddGroup(changeSets[next])
     /\ DistinctPaths(changeSets[next].changes))
    => LET group == changeSets[next].changes
       IN /\ \A f \in Orders(Len(group)) :
                SnapshotAfter(Permuted(group, f)) =
                   SnapshotOf(changeState'.changeMap, heap')
          /\ \A e \in FinalSnapshot :
                (\A i \in 1..Len(group) : group[i].path # e.path) =>
                   e \in SnapshotOf(changeState'.changeMap, heap')
          /\ \A e \in SnapshotOf(changeState'.changeMap, heap') :
                \/ e \in FinalSnapshot
                \/ \E i \in 1..Len(group) :
                      /\ group[i].path = e.path
                      /\ e.sha = blobSha(group[i].content)
                      /\ e.mode = group[i].mode

C25_Triples ==
    pc = "apply" =>
       \A group \in AddTriples : \A f \in Orders(3) :
          SnapshotAfter(Permuted(group, f)) = SnapshotAfter(group)

C25_AddOrderIrrelevant == [][C25_Step]_vars /\ []C25_Triples

\* An addLocalFiles group of two files was applied and added both
C25_Witness ==
    /\ Applied(1)
    /\ Len(changeSets[1].changes) = 2
    /\ AddGroup(changeSets[1])
    /\ DistinctPaths(changeSets[1].changes)
    /\ Len(changeState.entries) = 2
    /\ Cardinality(FinalSnapshot) = Cardinality(BaseSnapshot) + 2

----------------------------------------------------------------------------
\* C30: the commit decision equals the emission of records.  Every round of
\* commit() either hands back the very map object it was given and adds no
\* record, or hands back a map object that did not exist before and adds at
\* least one record; so while commit() runs the in-progress map is the same
\* object as the base map exactly when the accumulated record list is
\* empty, and the commit step (createCommit, or the placeholder of a dry
\* run) is reached exactly when at least one record was emitted.
C30_Step ==
    (pc = "apply" /\ next <= Len(changeSets) /\ next' = next + 1) =>
       /\ (changeState'.changeMap.ref = changeState.changeMap.ref) <=>
             (NewEntries = << >>)
       /\ changeState'.changeMap.ref # changeState.changeMap.ref =>
             /\ changeState'.changeMap.ref >= nextRef
             /\ changeState'.changeMap.ref < nextRef'
       /\ changeState'.changeMap.ref = changeState.changeMap.ref =>
             changeState'.changeMap = changeState.changeMap

C30_SameObjectIffNoRecord ==
    pc \in {"apply", "createCommit", "done"} =>
       /\ equals(changeState, existingChangesState) <=>
             (changeState.entries = << >>)
       /\ (pc = "createCommit" \/ CallsTo("createBranch") # {}) =>
             changeState.entries # << >>
       /\ Done =>
             /\ hasChanges(completion) <=> (changeState.entries # << >>)
             /\ (~dry /\ changeState.entries # << >>) <=>
                   (CallsTo("createCommit") # {})
             /\ (dry /\ changeState.entries # << >>) <=>
                   (completion.ref = PlaceholderRef)

C30_DecisionIsEmission ==
    [][C30_Step]_vars /\ []C30_SameObjectIffNoRecord

\* A session of two single-operator change sets of which one was a no-op
\* and the other emitted the one record that made commit() commit
C30_Witness ==
    /\ Done
    /\ Len(changeSets) = 2
    /\ Len(changeSets[1].changes) = 1
    /\ Len(changeSets[2].changes) = 1
    /\ Len(changeState.entries) = 1
    /\ ~equals(changeState, existingChangesState)
    /\ hasChanges(completion)

----------------------------------------------------------------------------
\* sha.ts on its own: a caller holds a type and a content and calls gitSha
\* and blobSha on them.

MaxLen == 2
MaxCalls == 2

\* "what is up, doc?"
ContentDoc ==
    << "w", "h", "a", "t", " ", "i", "s", " ", "u", "p", ",", " ",
       "d", "o", "c", "?" >>

\* The contents up to a length, and three longer ones
ShaContents ==
    UNION { [1..n -> {"a", "b"}] : n \in 0..MaxLen }
       \cup { ContentDoc, ContentHi, ContentDoc \o ContentDoc \o ContentDoc }

ShaTypes == { ObjectTypeBlob, ObjectTypeTree, ObjectTypeCommit }

InitSha ==
    /\ remote = Remote(NoBranch, NoBranch, NoBranch)
    /\ truncated = FALSE
    /\ StageInit
    /\ script = << >>
    /\ pages = << >>
    /\ task \in { [fn |-> "sha", type |-> type, content |-> content] :
                    type \in ShaTypes, content \in ShaContents }
    /\ outcomes = << >>

\* gitSha(type, content)
GitSha ==
    /\ task.fn = "sha"
    /\ Len(outcomes) < MaxCalls
    /\ outcomes' = Append(outcomes,
                          [fn |-> "gitSha", type |-> task.type,
                           content |-> task.content,
                           sha |-> hexDigest(gitSha(task.type, task.content))])
    /\ UNCHANGED << remote, truncated, script, pages, task >>
    /\ UNCHANGED << stageVars, pc, commitVars >>

\* blobSha(content)
BlobSha ==
    /\ task.fn = "sha"
    /\ Len(outcomes) < MaxCalls
    /\ outcomes' = Append(outcomes,
                          [fn |-> "blobSha", type |-> ObjectTypeBlob,
                           content |-> task.content,
                           sha |-> hexDigest(blobSha(task.content))])
    /\ UNCHANGED << remote, truncated, script, pages, task >>
    /\ UNCHANGED << stageVars, pc, commitVars >>

NextSha == GitSha \/ BlobSha

SpecSha == InitSha /\ [][NextSha]_vars

----------------------------------------------------------------------------
\* The object ids that git, and so the store behind the API, gives to the
\* empty blob, to the empty tree and to the blob "what is up, doc?"
GitEmptyBlob == "e69de29bb2d1d6434b8b29ae775ad8c2e48c5391"
GitEmptyTree == "4b825dc642cb6eb9a060e54bf8d69288fbee4904"
GitDocBlob == "bd9dbf5aae1a3862dd1526723246b20206e5fc37"

\* C21: gitSha(type, content) is a function of the type and the bytes (and
\* so of their number): calls on equal input return equal strings, each the
\* 40 hex digits of the SHA-1 of the header "{type} {length}" with its zero
\* byte followed by the bytes; blobSha(c) returns what gitSha("blob", c)
\* returns; and the string is the id the store gives to the object, e.g.
\* bd9dbf5aae1a3862dd1526723246b20206e5fc37 for the blob "what is up, doc?".
C21_ShaIsGitObjectId ==
    /\ \A i, j \in 1..Len(outcomes) :
          (/\ outcomes[i].type = outcomes[j].type
           /\ outcomes[i].content = outcomes[j].content)
          => outcomes[i].sha = outcomes[j].sha
    /\ \A i \in 1..Len(outcomes) :
          /\ Len(outcomes[i].sha) = 40
          /\ outcomes[i].sha =
                DigestHex(Sha1(BufferFrom(Characters(outcomes[i].type)) \o
                               << 32 >> \o
                               BufferFrom(Decimal(Len(outcomes[i].content))) \o
                               << 0 >> \o BufferFrom(outcomes[i].content)))
          /\ (/\ outcomes[i].type = ObjectTypeBlob
              /\ outcomes[i].content = ContentDoc) =>
                outcomes[i].sha = GitDocBlob
          /\ (/\ outcomes[i].type = ObjectTypeBlob
              /\ outcomes[i].content = << >>) =>
                outcomes[i].sha = GitEmptyBlob
          /\ (/\ outcomes[i].type = ObjectTypeTree
              /\ outcomes[i].content = << >>) =>
                outcomes[i].sha = GitEmptyTree

\* gitSha("blob", c) and blobSha(c) were both called on "what is up, doc?"
C21_Witness ==
    /\ Len(outcomes) = 2
    /\ outcomes[1].fn = "gitSha"
    /\ outcomes[2].fn = "blobSha"
    /\ task.type = ObjectTypeBlob
    /\ task.content = ContentDoc
    /\ outcomes[1].sha = GitDocBlob
    /\ outcomes[2].sha = GitDocBlob

----------------------------------------------------------------------------
\* Links: the Link header of a response, parsed.  A header and what is cut
\* from it are sequences of characters.

\* String.prototype.split on a one-character separator
RECURSIVE Split(_, _)
Split(string, sep) ==
    Const(string, LAMBDA str :
        IF \A i \in 1..Len(str) : str[i] # sep
        THEN << str >>
        ELSE Const(CHOOSE i \in 1..Len(str) :
                      /\ str[i] = sep
                      /\ \A j \in 1..(i - 1) : str[j] # sep,
                   LAMBDA i : << SubSeq(str, 1, i - 1) >> \o
                              Split(SubSeq(str, i + 1, Len(str)), sep)))

\* String.prototype.trim
RECURSIVE Trim(_)
Trim(string) ==
    Const(string, LAMBDA str :
        IF str # << >> /\ Head(str) = " " THEN Trim(Tail(str))
        ELSE IF str # << >> /\ str[Len(str)] = " "
        THEN Trim(SubSeq(str, 1, Len(str) - 1))
        ELSE str)

\* String.prototype.substring: the indices are brought into 0..length and
\* swapped when the first is the greater.
Substring(string, start, end) ==
    Const(string, LAMBDA str :
        LET clamp(n) == IF n < 0 THEN 0
                        ELSE IF n > Len(str) THEN Len(str) ELSE n
            from == IF clamp(start) < clamp(end) THEN clamp(start)
                    ELSE clamp(end)
            to == IF clamp(start) < clamp(end) THEN clamp(end)
                  ELSE clamp(start)
        IN SubSeq(str, from + 1, to))

\* components.map((s) => s.trim())
RECURSIVE TrimAll(_)
TrimAll(components) ==
    Const(components, LAMBDA split :
        IF split = << >> THEN << >>
        ELSE << Trim(Head(split)) >> \o TrimAll(Tail(split)))

ErrParseLink == "Unable to parse link"
ErrParseRel == "Unable to parse rel"

parseLinkUri(uriComponent) ==
    Const(uriComponent, LAMBDA uri : Substring(uri, 1, Len(uri) - 1))

parseLinkRel(relComponent) ==
    Const(TrimAll(Split(relComponent, "=")), LAMBDA components :
        IF Len(components) = 2
        THEN [err |-> ErrNone, rel |-> parseLinkUri(components[2])]
        ELSE [err |-> ErrParseRel, rel |-> << >>])

parseLink(link) ==
    Const(TrimAll(Split(link, ";")), LAMBDA components :
        IF Len(components) = 2
        THEN Const(parseLinkRel(components[2]), LAMBDA rel :
                 [err |-> rel.err, uri |-> parseLinkUri(components[1]),
                  rel |-> rel.rel])
        ELSE [err |-> ErrParseLink, uri |-> << >>, rel |-> << >>])

\* links.split(",").map(parseLink)
RECURSIVE ParseAll(_)
ParseAll(links) ==
    Const(links, LAMBDA split :
        IF split = << >> THEN << >>
        ELSE << parseLink(Head(split)) >> \o ParseAll(Tail(split)))

\* Map.set: a key that is there keeps its place and takes the new value
MapSet(map, link) ==
    IF \E i \in 1..Len(map) : map[i].rel = link.rel
    THEN [i \in 1..Len(map) |-> IF map[i].rel = link.rel THEN link ELSE map[i]]
    ELSE Append(map, link)

RECURSIVE Reduce(_, _)
Reduce(acc, parsed) ==
    IF parsed = << >> THEN acc
    ELSE Reduce(MapSet(acc, [rel |-> Head(parsed).rel, uri |-> Head(parsed).uri]),
                Tail(parsed))

\* parseLinks: the first link that cannot be parsed throws
parseLinks(links) ==
    IF links = << >> THEN [err |-> ErrNone, map |-> << >>]
    ELSE Const(ParseAll(Split(links, ",")), LAMBDA parsed :
             LET failed == { i \in 1..Len(parsed) : parsed[i].err # ErrNone }
             IN IF failed # {}
                THEN [err |-> parsed[CHOOSE i \in failed :
                                        \A j \in failed : i <= j].err,
                      map |-> << >>]
                ELSE [err |-> ErrNone, map |-> Reduce(<< >>, parsed)])

\* Links.has
has(links, rel) == \E i \in 1..Len(links) : links[i].rel = rel

\* Links.get
get(links, rel) ==
    links[CHOOSE i \in 1..Len(links) : links[i].rel = rel].uri

RelNext == << "n", "e", "x", "t" >>
RelPrev == << "p", "r", "e", "v" >>
RelFirst == << "f", "i", "r", "s", "t" >>
RelLast == << "l", "a", "s", "t" >>

----------------------------------------------------------------------------
\* The listing of the repositories of the user, page by page, as the remote
\* serves it

MaxPages == 3
MaxRequests == 4

\* /user/repos
ReposPath == << "/", "u", "s", "e", "r", "/", "r", "e", "p", "o", "s" >>

\* queryString({ page: pageNum }) after the path
PageUrl(pageNum) == ReposPath \o << "?", "p", "a", "g", "e", "=" >> \o Decimal(pageNum)

\* One link of a Link header
LinkText(uri, rel) ==
    << "<" >> \o uri \o << ">", ";", " ", "r", "e", "l", "=", "\"" >> \o rel \o
    << "\"" >>

\* createLink of the tests
createLink(pageNumber, numPages) ==
    LET first == LinkText(PageUrl(1), RelFirst)
        last == LinkText(PageUrl(numPages), RelLast)
    IN IF numPages = 1 THEN << >>
       ELSE IF pageNumber = 1
       THEN LinkText(PageUrl(pageNumber + 1), RelNext) \o << "," >> \o last
       ELSE IF pageNumber < numPages
       THEN LinkText(PageUrl(pageNumber + 1), RelNext) \o << "," >> \o last \o
            << "," >> \o first \o << "," >> \o
            LinkText(<< "/" >> \o PageUrl(pageNumber - 1), RelPrev)
       ELSE LinkText(PageUrl(pageNumber - 1), RelPrev) \o << "," >> \o first

\* data.repos(["testing", "hello", "blue", "green", "red"], "ukayani")
Elements == << "testing", "hello", "blue", "green", "red" >>

\* getPaged of the tests: the elements cut into numPages pages, each with
\* the Link header createLink gives it
getPaged(elements, numPages) ==
    LET pageSize == (2 * Len(elements) + numPages) \div (2 * numPages)
        start(page) == IF (page - 1) * pageSize < Len(elements)
                       THEN (page - 1) * pageSize ELSE Len(elements)
        stop(page) == IF page = numPages THEN Len(elements) ELSE start(page + 1)
    IN [page \in 1..numPages |->
          [repos |-> SubSeq(elements, start(page) + 1, stop(page)),
           link |-> createLink(page, numPages)]]

\* A listing whose pages carry the given Link headers
Paged(elements, links) ==
    [page \in 1..Len(links) |->
       [repos |-> getPaged(elements, Len(links))[page].repos,
        link |-> links[page]]]

\* The listings a call may meet: those of getPaged, and listings whose
\* headers are written as the API writes them (a space after each comma),
\* lead back to the first page, lead to a page that is not there, or are
\* not a list of links.
Listings ==
    { getPaged(Elements, numPages) : numPages \in 1..MaxPages } \cup
    { Paged(Elements, << LinkText(PageUrl(1), RelPrev) \o << ",", " " >> \o
                         LinkText(PageUrl(2), RelNext),
                         LinkText(PageUrl(1), RelFirst) >>),
      Paged(Elements, << LinkText(PageUrl(2), RelNext),
                         LinkText(PageUrl(1), RelNext) >>),
      Paged(Elements, << LinkText(PageUrl(MaxPages + 2), RelNext) >>),
      Paged(Elements, << << "<" >> \o PageUrl(2) \o << ">" >>, << >> >>),
      Paged(Elements, << << "<" >> \o PageUrl(2) \o
                         << ">", ";", " ", "r", "e", "l" >>, << >> >>) }

\* The page the remote serves at a url, 0 when there is none
PageAt(listing, url) ==
    IF url = ReposPath THEN 1
    ELSE IF \E n \in 1..Len(listing) : PageUrl(n) = url
    THEN CHOOSE n \in 1..Len(listing) : PageUrl(n) = url
    ELSE 0

----------------------------------------------------------------------------
\* Calls on the API client: GitHub, Repository and Checkout.  A call that
\* awaits one answer after another is one action per answer; requests holds
\* the requests of the call that runs or ran last, outcomes what it gave.

MaxFailures == 2

\* What the remote may answer a request with, Pass standing for the answer
\* its state gives
Answers == { Pass, AbuseLimit, ServerError, NetworkError }

\* The scripts: up to MaxFailures answers, the last of them a failure
Scripts ==
    { script_ \in UNION { [1..n -> Answers] : n \in 0..MaxFailures } :
         script_ # << >> => script_[Len(script_)] # Pass }

\* What a session of the client leaves alone
sessionVars ==
    << truncated, changeSets, dry, cachedBaseBranch, pc, latestCommit,
       existingChangesState, changeState, next, heap, nextRef, calls,
       completion, error >>

\* A session meets any of the remote states with the listing of the one
\* repository on one page, or any of the listings with the first of the
\* remote states.
InitClient ==
    /\ \/ remote \in RemoteStates /\ pages = getPaged(Elements, 1)
       \/ remote = Remote(Branch(TreeWithDir), NoBranch, NoBranch) /\
          pages \in Listings
    /\ truncated = FALSE
    /\ StageInit
    /\ script \in Scripts
    /\ task = Idle
    /\ outcomes = << >>

\* The Repository as a call finds it
Repository == [remote |-> remote, requests |-> << >>, script |-> script]

\* The call has come to its end: the remote, the requests and the rest of
\* the script are as it leaves them.
Settle(s, outcome) ==
    /\ remote' = s.remote
    /\ requests' = s.requests
    /\ script' = s.script
    /\ task' = Idle
    /\ outcomes' = << outcome >>
    /\ UNCHANGED pages
    /\ UNCHANGED sessionVars

\* Repository.getBranch
GetBranch(name) ==
    /\ task = Idle
    /\ LET ref == getBranch(name, Repository)
       IN Settle(ref.s,
                 [fn |-> "getBranch", name |-> name,
                  answer |-> Answer(Repository, remote[name].exists),
                  err |-> ref.err,
                  null |-> ref.err = ErrNone /\ ~ref.exists])

\* Repository.getLatestCommitToBranch
GetLatestCommitToBranch(branch) ==
    /\ task = Idle
    /\ LET commit == getLatestCommitToBranch(branch, Repository)
       IN Settle(commit.s,
                 [fn |-> "getLatestCommitToBranch", branch |-> branch,
                  answer |-> Answer(Repository, remote[branch].exists),
                  err |-> commit.err,
                  commit |-> commit.commit])

ErrStartPoint == "Must set start start point for new branch"

\* Checkout.stage of a Checkout of the branch with the start point ("" when
\* none is set)
CheckoutStage(branch, startPoint, dryRun) ==
    /\ task = Idle
    /\ LET ref == getBranch(branch, Repository)
           creates == ref.err = ErrNone /\ ~ref.exists /\ startPoint # "" /\
                      ~dryRun
           created == createBranch(branch, startPoint, ref.s)
       IN Settle(IF creates THEN created.s ELSE ref.s,
                 [fn |-> "stage", branch |-> branch,
                  startPoint |-> startPoint, dryRun |-> dryRun,
                  before |-> remote,
                  answer |-> Answer(Repository, remote[branch].exists),
                  calls |-> << [fn |-> "getBranch", name |-> branch] >> \o
                            IF creates
                            THEN << [fn |-> "createBranch", name |-> branch,
                                     branch |-> startPoint] >>
                            ELSE << >>,
                  err |-> IF ref.err # ErrNone THEN ref.err
                          ELSE IF ref.exists THEN ErrNone
                          ELSE IF startPoint = "" THEN ErrStartPoint
                          ELSE IF creates THEN created.err
                          ELSE ErrNone,
                  stage |-> [branch |-> branch, baseBranch |-> startPoint,
                             dry |-> dryRun]])

\* A call has sent its first request and awaits the answer
Await(s, running) ==
    /\ remote' = s.remote
    /\ requests' = s.requests
    /\ script' = s.script
    /\ task' = running
    /\ outcomes' = << >>
    /\ UNCHANGED pages
    /\ UNCHANGED sessionVars

\* The repositories the remote has
Repositories == { RepoName }

\* GitHub.getRepository: this.client.get is called
GetRepository(name) ==
    /\ task = Idle
    /\ Await(Send(Repository,
                  [method |-> "GET", url |-> << "repos", name >>]),
             [fn |-> "getRepository", name |-> name, script |-> script])

\* GitHub.getRepository: the answer is there
RepositoryResponse ==
    /\ task.fn = "getRepository"
    /\ LET s == [remote |-> remote, requests |-> requests, script |-> script]
           res == Answer(s, task.name \in Repositories)
           answered == [s EXCEPT !.script = IF @ = << >> THEN @ ELSE Tail(@)]
       IN Settle(answered,
                 [fn |-> "getRepository", name |-> task.name,
                  script |-> task.script, err |-> res.err])

\* The predicates: what each resolves to, or that it rejects, by the name
\* of the repository
Predicates ==
    { [name \in { Elements[i] : i \in 1..Len(Elements) } |-> "true"],
      [name \in { Elements[i] : i \in 1..Len(Elements) } |->
         IF name \in { "testing", "green" } THEN "true"
         ELSE IF name = "blue" THEN "reject" ELSE "false"],
      [name \in { Elements[i] : i \in 1..Len(Elements) } |-> "reject"] }

\* GitHub.getRepositoriesMatching: this.client.get("/user/repos") is called
GetRepositoriesMatching(predicate) ==
    /\ task = Idle
    /\ Await(Send(Repository,
                  [method |-> "GET", url |-> ReposPath,
                   params |-> [visibility |-> "all",
                               affiliation |-> "owner,organization_member"]]),
             [fn |-> "getRepositoriesMatching", pc |-> "get",
              predicate |-> predicate, url |-> ReposPath, repos |-> << >>,
              script |-> script])

\* the filter of asyncFilter, a predicate that rejects failing the call
asyncFilterStrict(items, predicate) ==
    [err |-> IF \E i \in 1..Len(items) : predicate[items[i]] = "reject"
             THEN "rejected" ELSE ErrNone,
     items |-> SelectSeq(items, LAMBDA r : predicate[r] = "true")]

\* asyncFilter with (r) => predicate(r).catch(() => false)
asyncFilter(items, predicate) ==
    [err |-> ErrNone,
     items |-> SelectSeq(items, LAMBDA r : predicate[r] = "true")]

\* GitHub.getRepositoriesMatching from the answer to a request on: the
\* repositories of the page are added and its Link header parsed, and the
\* next page is asked for when the header names one.  The result is the
\* Repository, the task and, when the call has failed, what it rejects with.
nextPage(s, running, listing) ==
    LET page == PageAt(listing, running.url)
        res == Answer(s, page # 0)
        answered == [s EXCEPT !.script = IF @ = << >> THEN @ ELSE Tail(@)]
        repos == running.repos \o listing[page].repos
    IN IF res.err # ErrNone
       THEN [s |-> answered, task |-> Idle, err |-> res.err]
       ELSE Const(parseLinks(listing[page].link), LAMBDA links :
                IF links.err # ErrNone
                THEN [s |-> answered, task |-> Idle, err |-> links.err]
                ELSE IF has(links.map, RelNext)
                THEN [s |-> Send(answered,
                                 [method |-> "GET",
                                  url |-> get(links.map, RelNext)]),
                      task |-> [running EXCEPT
                                  !.url = get(links.map, RelNext),
                                  !.repos = repos],
                      err |-> ErrNone]
                ELSE [s |-> answered,
                      task |-> [running EXCEPT !.pc = "filter",
                                               !.repos = repos],
                      err |-> ErrNone])

\* GitHub.getRepositoriesMatching: a page is there
PageResponse ==
    /\ task.fn = "getRepositoriesMatching"
    /\ task.pc = "get"
    /\ \E step \in { nextPage([remote |-> remote, requests |-> requests,
                                script |-> script], task, pages) } :
          /\ Len(step.s.requests) <= MaxRequests
          /\ remote' = step.s.remote
          /\ requests' = step.s.requests
          /\ script' = step.s.script
          /\ task' = step.task
          /\ outcomes' = IF step.err = ErrNone THEN outcomes
                         ELSE << [fn |-> "getRepositoriesMatching",
                                  predicate |-> task.predicate,
                                  script |-> task.script, err |-> step.err,
                                  repos |-> << >>] >>
    /\ UNCHANGED pages
    /\ UNCHANGED sessionVars

\* GitHub.getRepositoriesMatching: asyncFilter over the repositories
Filter ==
    /\ task.fn = "getRepositoriesMatching"
    /\ task.pc = "filter"
    /\ LET filtered == asyncFilter(task.repos, task.predicate)
       IN Settle([remote |-> remote, requests |-> requests,
                  script |-> script],
                 [fn |-> "getRepositoriesMatching",
                  predicate |-> task.predicate, script |-> task.script,
                  err |-> filtered.err, repos |-> filtered.items])

NextClient ==
    \/ \E name \in BranchNames : GetBranch(name)
    \/ \E branch \in BranchNames : GetLatestCommitToBranch(branch)
    \/ \E branch \in BranchNames, startPoint \in BranchNames \cup { "" },
          dryRun \in BOOLEAN : CheckoutStage(branch, startPoint, dryRun)
    \/ \E name \in Repositories \cup { "missing" } : GetRepository(name)
    \/ RepositoryResponse
    \/ \E predicate \in Predicates : GetRepositoriesMatching(predicate)
    \/ PageResponse
    \/ Filter

\* An answer that is on its way arrives, and a call that has its answer
\* goes on.
SpecClient ==
    /\ InitClient
    /\ [][NextClient]_vars
    /\ WF_vars(RepositoryResponse)
    /\ WF_vars(PageResponse)
    /\ WF_vars(Filter)

----------------------------------------------------------------------------
\* The request for the ref of a branch
GetRef(name) == [method |-> "GET", url |-> << "git", "ref", "heads", name >>]

\* C26: Repository.getBranch resolves to null when the remote answers 404
\* for the ref, and rejects with the very error of the answer for any other
\* failure; getLatestCommitToBranch of a branch whose ref is answered with
\* 404 rejects with "No such branch", the request for the ref being the only
\* one it sent.
C26_NotFoundIsNull ==
    \A i \in 1..Len(outcomes) :
       /\ outcomes[i].fn = "getBranch" =>
             /\ requests = << GetRef(outcomes[i].name) >>
             /\ outcomes[i].answer.status = 404 =>
                   outcomes[i].null /\ outcomes[i].err = ErrNone
             /\ outcomes[i].answer.status = 200 =>
                   ~outcomes[i].null /\ outcomes[i].err = ErrNone
             /\ outcomes[i].answer.status \notin { 200, 404 } =>
                   /\ ~outcomes[i].null
                   /\ outcomes[i].err # ErrNone
                   /\ outcomes[i].err = outcomes[i].answer.err
       /\ outcomes[i].fn = "getLatestCommitToBranch" =>
             /\ outcomes[i].answer.status = 404 =>
                   /\ outcomes[i].err = ErrNoSuchBranch
                   /\ requests = << GetRef(outcomes[i].branch) >>
             /\ outcomes[i].answer.status \notin { 200, 404 } =>
                   /\ outcomes[i].err = outcomes[i].answer.err
                   /\ requests = << GetRef(outcomes[i].branch) >>

\* getLatestCommitToBranch of a branch that is not there has rejected
C26_Witness ==
    /\ outcomes # << >>
    /\ outcomes[1].fn = "getLatestCommitToBranch"
    /\ outcomes[1].answer.status = 404
    /\ ~remote[outcomes[1].branch].exists
    /\ outcomes[1].err = ErrNoSuchBranch
    /\ Len(requests) = 1

----------------------------------------------------------------------------
\* The createBranch calls of a Checkout.stage call
CreateBranchCalls(outcome) ==
    SelectSeq(outcome.calls, LAMBDA call : call.fn = "createBranch")

\* Checkout.stage found that the target branch does not exist on the remote
TargetMissing(outcome) ==
    /\ outcome.fn = "stage"
    /\ outcome.answer.status = 404
    /\ ~outcome.before[outcome.branch].exists

\* C27: Checkout.stage, the target branch not existing on the remote: with
\* no start point it rejects and createBranch is not called; with a start
\* point and dryRun it resolves, createBranch is not called and the remote
\* is as before; with a start point and no dryRun, createBranch is called
\* once for the branch and the start point and, when the call resolves, the
\* branch exists on the remote at the commit of the start point.
C27_StageCreatesBranch ==
    \A i \in 1..Len(outcomes) :
       TargetMissing(outcomes[i]) =>
          /\ outcomes[i].startPoint = "" =>
                /\ outcomes[i].err = ErrStartPoint
                /\ CreateBranchCalls(outcomes[i]) = << >>
                /\ remote = outcomes[i].before
          /\ (outcomes[i].startPoint # "" /\ outcomes[i].dryRun) =>
                /\ outcomes[i].err = ErrNone
                /\ CreateBranchCalls(outcomes[i]) = << >>
                /\ remote = outcomes[i].before
          /\ (outcomes[i].startPoint # "" /\ ~outcomes[i].dryRun) =>
                /\ CreateBranchCalls(outcomes[i]) =
                      << [fn |-> "createBranch", name |-> outcomes[i].branch,
                          branch |-> outcomes[i].startPoint] >>
                /\ outcomes[i].err = ErrNone =>
                      remote[outcomes[i].branch] =
                         outcomes[i].before[outcomes[i].startPoint]

----------------------------------------------------------------------------
\* The pages of a listing from the page at a url on, each reached from the
\* one before by its rel="next" link, and how the chain ends: "done" at a
\* page whose header has no next relation, "missing" at a url the remote has
\* no page for, "unparsable" at a header that is not a list of links, and
\* "cycle" when it does not end.
RECURSIVE Chain(_, _, _)
Chain(listing, url, visited) ==
    Const(PageAt(listing, url), LAMBDA page :
        IF page = 0 THEN [visited |-> visited, end |-> "missing"]
        ELSE IF Len(visited) > Len(listing)
        THEN [visited |-> visited, end |-> "cycle"]
        ELSE Const(parseLinks(listing[page].link), LAMBDA links :
                 IF links.err # ErrNone
                 THEN [visited |-> Append(visited, page), end |-> "unparsable"]
                 ELSE IF \E i \in 1..Len(links.map) : links.map[i].rel = RelNext
                 THEN Chain(listing,
                            links.map[CHOOSE i \in 1..Len(links.map) :
                                         links.map[i].rel = RelNext].uri,
                            Append(visited, page))
                 ELSE [visited |-> Append(visited, page), end |-> "done"]))

\* The repositories of the pages, in the order of the pages
RECURSIVE Concat(_, _)
Concat(listing, visited) ==
    IF visited = << >> THEN << >>
    ELSE listing[Head(visited)].repos \o Concat(listing, Tail(visited))

\* The remote answers the first n requests of a script from its state
Passes(script_, n) ==
    \A i \in 1..Len(script_) : i <= n => script_[i] = Pass

\* getRepositoriesMatching has resolved
Matched ==
    /\ task = Idle
    /\ outcomes # << >>
    /\ outcomes[1].fn = "getRepositoriesMatching"
    /\ outcomes[1].err = ErrNone

\* What C28 says of a call that has resolved: one request for the first
\* page, then one for each next link and no other, no page asked for twice,
\* and the result the repositories of these pages, in their order, for
\* which the predicate resolves to true.
C28_Pages ==
    Matched =>
       Const(Chain(pages, ReposPath, << >>), LAMBDA chain :
          /\ chain.end = "done"
          /\ Len(requests) = Len(chain.visited)
          /\ requests[1].url = ReposPath
          /\ \A i \in 1..Len(requests) :
                /\ requests[i].method = "GET"
                /\ PageAt(pages, requests[i].url) = chain.visited[i]
                /\ \A j \in 1..Len(requests) :
                      requests[i].url = requests[j].url => i = j
          /\ outcomes[1].repos =
                SelectSeq(Concat(pages, chain.visited),
                          LAMBDA r : outcomes[1].predicate[r] = "true"))

\* What C28 says of the listings of getPaged: a call that is answered
\* without a failure resolves, after as many requests as there are pages,
\* to the elements the predicate resolves to true for, a rejecting
\* predicate counting as false.
C28_Resolves ==
    \A numPages \in 1..MaxPages :
       (/\ task = Idle
        /\ outcomes # << >>
        /\ outcomes[1].fn = "getRepositoriesMatching"
        /\ pages = getPaged(Elements, numPages)
        /\ Passes(outcomes[1].script, numPages)) =>
          /\ outcomes[1].err = ErrNone
          /\ Len(requests) = numPages
          /\ outcomes[1].repos =
                SelectSeq(Elements, LAMBDA r : outcomes[1].predicate[r] = "true")

\* A call that rejects does so with the error of an answer or of the parser
C28_Rejects ==
    \A i \in 1..Len(outcomes) :
       (outcomes[i].fn = "getRepositoriesMatching" /\ outcomes[i].err # ErrNone)
          => outcomes[i].err \in
                { AbuseLimit.err, ServerError.err, NetworkError.err,
                  NotFound.err, ErrParseLink, ErrParseRel }

\* C28: GitHub.getRepositoriesMatching asks for the first page once and
\* follows each rel="next" link once, up to the first answer whose Link
\* header has no next relation; it resolves to the repositories of these
\* pages, in page order, for which the predicate resolves to true, a
\* predicate that rejects counting as false; and whenever the chain of next
\* links ends, the call comes to an end.
C28_PagedListing ==
    /\ [](C28_Pages /\ C28_Resolves /\ C28_Rejects)
    /\ (/\ task.fn = "getRepositoriesMatching"
        /\ Chain(pages, ReposPath, << >>).end # "cycle")
          ~> (task = Idle)

\* The three pages of the listing of the tests were fetched and the
\* predicate that rejects for one repository and resolves to false for two
\* has left the other two
C28_Witness ==
    /\ Matched
    /\ pages = getPaged(Elements, 3)
    /\ Len(requests) = 3
    /\ outcomes[1].predicate["blue"] = "reject"
    /\ outcomes[1].repos = << "testing", "green" >>

----------------------------------------------------------------------------
\* A script of abuse-limit answers only: after them the remote answers 200
AbuseThenOk(script_) ==
    /\ script_ # << >>
    /\ \A i \in 1..Len(script_) : script_[i] = AbuseLimit

\* C29: GitHub.getRepository, the remote answering any finite number of
\* times with an abuse-limit response (an error status with a Retry-After
\* header) and then with 200: the call eventually resolves with the
\* repository instead of rejecting.
C29_RetriesOnAbuseLimit ==
    \A script_ \in Scripts :
       (/\ task.fn = "getRepository"
        /\ task.name \in Repositories
        /\ task.script = script_
        /\ AbuseThenOk(script_))
          ~> (/\ task = Idle
              /\ outcomes # << >>
              /\ outcomes[1].fn = "getRepository"
              /\ outcomes[1].script = script_
              /\ outcomes[1].err = ErrNone)

----------------------------------------------------------------------------
\* Every key of the map maps to an object whose path field is that key, and
\* no key occurs twice
WellFormed(changes, h) ==
    /\ \A i \in 1..Len(changes.ents) :
          h[changes.ents[i].obj].path = changes.ents[i].key
    /\ \A i, j \in 1..Len(changes.ents) :
          changes.ents[i].key = changes.ents[j].key => i = j

\* C31: in every snapshot commit() holds while and after it applies the
\* staged change sets each key maps to an entry whose path field is that
\* key, and the entry list passed to createCommit is the list of those
\* entries, so that no two submitted entries have the same path.
C31_SnapshotWellFormed ==
    /\ pc \in {"apply", "createCommit", "done", "rejected"} =>
          WellFormed(changeState.changeMap, heap)
    /\ \A c \in CallsTo("createCommit") :
          LET changes == calls[c].changes
          IN /\ Len(changes) = Len(changeState.changeMap.ents)
             /\ \A i \in 1..Len(changes) :
                   changes[i].path = changeState.changeMap.ents[i].key
             /\ \A i, j \in 1..Len(changes) :
                   changes[i].path = changes[j].path => i = j

\* A commit of at least two entries was submitted after a move
C31_Witness ==
    /\ Done
    /\ \E c \in CallsTo("createCommit") : Len(calls[c].changes) >= 2
    /\ \E i \in 1..Len(changeState.entries) :
          changeState.entries[i].type = ChangeTypeMove

----------------------------------------------------------------------------
\* The path is a directory of the snapshot: some key lies below it
IsDirectoryIn(path, changes) ==
    \E i \in 1..Len(changes.ents) :
       StartsWith(changes.ents[i].key, path \o Slash)

\* No entry of the in-progress snapshot and no entry submitted to
\* createCommit is of kind Tree
C32_NoTreeEntries ==
    /\ \A i \in 1..Len(changeState.changeMap.ents) :
          heap[changeState.changeMap.ents[i].obj].type
             \in {ObjectTypeBlob, ObjectTypeCommit}
    /\ \A c \in CallsTo("createCommit") :
          \A i \in 1..Len(calls[c].changes) :
             calls[c].changes[i].type \in {ObjectTypeBlob, ObjectTypeCommit}

\* C32: no snapshot reachable through commit() has an entry of kind Tree,
\* the list passed to createCommit has only blob- or commit-kind entries,
\* and no key of the snapshot is the path of a directory, that is a path
\* below which the snapshot has other keys.
C32_NoDirectoryKeys ==
    /\ C32_NoTreeEntries
    /\ \A i \in 1..Len(changeState.changeMap.ents) :
          ~IsDirectoryIn(changeState.changeMap.ents[i].key,
                         changeState.changeMap)

----------------------------------------------------------------------------
\* An Add of the content already at its path, asking for another mode
ModeOnlyAdd(ap, changes, h) ==
    /\ IdempotentAdd(ap, changes, h)
    /\ h[At(changes, ap.path)].mode # ap.mode

\* A modifyFiles whose modifier keeps every content and asks for the
\* executable mode, on files that the snapshot holds with the sha of the base
\* branch and of which at least one has another mode
ModeOnlyModifyFiles(ap, changes, h) ==
    /\ ap.fn = "modifyFiles"
    /\ ap.modifier = "chmod"
    /\ AllIn(SelectedFiles(ap),
             LAMBDA f : /\ In(f.path, changes)
                        /\ h[At(changes, f.path)].sha = f.sha)
    /\ \E i \in 1..Len(SelectedFiles(ap)) :
          h[At(changes, SelectedFiles(ap)[i].path)].mode # ObjectModeExecutable

ModeOnly(changeSet, changes, h) ==
    /\ Len(changeSet.changes) = 1
    /\ \/ ModeOnlyAdd(changeSet.changes[1], changes, h)
       \/ ModeOnlyModifyFiles(changeSet.changes[1], changes, h)

\* C33: a change set whose Add or Modify brings content that hashes to the
\* sha already at its path adds no record and leaves the snapshot, the entry
\* and its mode as they were although another mode was asked for, and stores
\* no blob; a session made only of such change sets resolves without a
\* record, without a ref and without createCommit.
C33_StepUnchanged ==
    (/\ pc = "apply" /\ next <= Len(changeSets)
     /\ ModeOnly(changeSets[next], changeState.changeMap, heap))
    => /\ changeState' = changeState
       /\ heap' = heap
       /\ CallsTo("createBlob")' = CallsTo("createBlob")
       /\ pc' = "apply"

C33_SessionNoOp ==
    (/\ Done
     /\ \A i \in 1..Len(changeSets) :
           ModeOnly(changeSets[i], existingChangesState.changeMap,
                    BaseHeap(latestCommit.tree)))
    => /\ ~hasChanges(completion)
       /\ completion.changes = << >>
       /\ FinalSnapshot = BaseSnapshot
       /\ CallsTo("createCommit") = {}
       /\ CallsTo("createBranch") = {}

C33_ModeOnlyIsNoOp == [][C33_StepUnchanged]_vars /\ []C33_SessionNoOp

\* Both operators: an Add and a modifyFiles that change modes only
C33_Witness ==
    /\ Done
    /\ Len(changeSets) = 2
    /\ ModeOnlyAdd(changeSets[1].changes[1], existingChangesState.changeMap,
                   BaseHeap(latestCommit.tree))
    /\ ModeOnlyModifyFiles(changeSets[2].changes[1],
                           existingChangesState.changeMap,
                           BaseHeap(latestCommit.tree))
    /\ ~hasChanges(completion)

----------------------------------------------------------------------------
\* What the modifier of the applicator makes of a file of the base branch
Modified(ap, f) ==
    IF ap.fn = "modifyFile"
    THEN [content |-> RunContentModifier(ap.modifier, f.content),
          mode |-> f.mode]
    ELSE RunFileModifier(ap.modifier, f.path, f.content, f.mode)

\* The files of the base branch that the applicator goes on to modify
ModifiedFiles(ap) ==
    IF ap.fn = "modifyFiles" \/ Len(SelectedFiles(ap)) = 1
    THEN SelectedFiles(ap)
    ELSE << >>

\* C34: the step that applies a modifyFile or modifyFiles puts every file it
\* resolved from the base branch whose path is not a key of the in-progress
\* snapshot back under that path, as a Blob entry with the hash of the
\* transformed content and the mode the modifier gave, and adds a Modify
\* record of that path with the base content and the transformed content.
C34_Step ==
    (/\ pc = "apply" /\ next <= Len(changeSets)
     /\ changeSets[next].changes[1].fn \in {"modifyFile", "modifyFiles"}
     /\ pc' = "apply")
    => LET ap == changeSets[next].changes[1]
       IN AllIn(ModifiedFiles(ap),
                LAMBDA f :
                   ~In(f.path, changeState.changeMap) =>
                      /\ In(f.path, changeState'.changeMap)
                      /\ heap'[At(changeState'.changeMap, f.path)] =
                            [path |-> f.path,
                             sha |-> blobSha(Modified(ap, f).content),
                             mode |-> Modified(ap, f).mode,
                             type |-> ObjectTypeBlob]
                      /\ \E i \in 1..Len(NewEntries) :
                            NewEntries[i] =
                               [type |-> ChangeTypeModify, src |-> f.path,
                                dest |-> f.path, srcContent |-> f.content,
                                destContent |-> Modified(ap, f).content])

C34_ModifyReinserts == [][C34_Step]_vars

\* A path deleted or moved away by the first change set and modified by the
\* second is in the final snapshot
C34_Witness ==
    /\ Done
    /\ Len(changeSets) = 2
    /\ changeSets[1].changes[1].fn \in {"deleteFile", "moveFile"}
    /\ changeSets[2].changes[1].fn \in {"modifyFile", "modifyFiles"}
    /\ Len(completion.changes) >= 2
    /\ completion.changes[1].type \in {ChangeTypeDelete, ChangeTypeMove}
    /\ completion.changes[1].src = PathAX
    /\ completion.changes[Len(completion.changes)].type = ChangeTypeModify
    /\ \E e \in FinalSnapshot : e.path = PathAX /\ e.type = ObjectTypeBlob
    /\ \E i \in 2..Len(completion.changes) :
          /\ completion.changes[i].type = ChangeTypeModify
          /\ completion.changes[i].src = PathAX

----------------------------------------------------------------------------
\* The change set about to be applied moves a file onto another path that
\* the snapshot holds
MoveOntoOccupied ==
    /\ pc = "apply" /\ next <= Len(changeSets)
    /\ changeSets[next].changes[1].fn = "moveFile"
    /\ changeSets[next].changes[1].src # changeSets[next].changes[1].dest
    /\ In(changeSets[next].changes[1].src, changeState.changeMap)
    /\ In(changeSets[next].changes[1].dest, changeState.changeMap)

\* C35: the step that applies a moveFile whose destination is a key of the
\* snapshot leaves a snapshot with one entry fewer: the keys are the former
\* keys without the source, the destination carries the sha, mode and kind
\* the source had, every other key keeps its entry, and the step adds one
\* record, the Move, and none for the entry it overwrote.
C35_Step ==
    MoveOntoOccupied =>
       LET src == changeSets[next].changes[1].src
           dest == changeSets[next].changes[1].dest
           before == SnapshotOf(changeState.changeMap, heap)
           after == SnapshotOf(changeState'.changeMap, heap')
           moved == heap[At(changeState.changeMap, src)]
       IN /\ Len(changeState'.changeMap.ents) =
                Len(changeState.changeMap.ents) - 1
          /\ Cardinality(after) = Cardinality(before) - 1
          /\ KeySet(changeState'.changeMap) =
                KeySet(changeState.changeMap) \ { src }
          /\ [path |-> dest, sha |-> moved.sha, mode |-> moved.mode,
              type |-> moved.type] \in after
          /\ { e \in after : e.path # dest } =
                { e \in before : e.path \notin { src, dest } }
          /\ NewEntries =
                << [type |-> ChangeTypeMove, src |-> src, dest |-> dest] >>

C35_MoveOverwrites == [][C35_Step]_vars

\* moveFile("a/x", "a/y") was applied to a snapshot holding both paths with
\* different contents; a/y now has the sha that a/x had
C35_Witness ==
    /\ Applied(1)
    /\ changeSets[1].changes[1] = ApMoveFile(PathAX, PathAY)
    /\ changeState.entries =
          << [type |-> ChangeTypeMove, src |-> PathAX, dest |-> PathAY] >>
    /\ [path |-> PathAX, sha |-> blobSha(ContentHi), mode |-> ObjectModeFile,
        type |-> ObjectTypeBlob] \in BaseSnapshot
    /\ \E e \in BaseSnapshot : e.path = PathAY /\ e.sha # blobSha(ContentHi)
    /\ [path |-> PathAY, sha |-> blobSha(ContentHi), mode |-> ObjectModeFile,
        type |-> ObjectTypeBlob] \in FinalSnapshot
    /\ Cardinality(FinalSnapshot) = Cardinality(BaseSnapshot) - 1

----------------------------------------------------------------------------
\* The requests sent to create a commit
CommitRequests ==
    { i \in 1..Len(requests) :
        /\ requests[i].method = "POST"
        /\ requests[i].url = << "git", "commits" >> }

\* The entries another client has committed to the target branch
WriterEntries(tree) ==
    { [path |-> tree[i].path, sha |-> tree[i].sha] :
        i \in { j \in 1..Len(tree) : tree[j].path = WriterPath } }

\* The parent of every commit that commit() writes is the commit it fetched
\* as its base
C36_ParentIsBase ==
    \A i \in CommitRequests :
       requests[i].body.parents = << CommitObject(latestCommit.tree).sha >>

\* The step that writes the commit keeps what another client has committed
\* to the target branch
C36_Step ==
    (pc = "createCommit" /\ pc' = "done") =>
       WriterEntries(remote[StageBranch].tree)
          \subseteq WriterEntries(remote'[StageBranch].tree)

\* C36: the commit that commit() writes has as its parent the commit whose
\* tree it fetched as the base snapshot, also when another client has
\* advanced the target branch since; and what that client committed to the
\* target branch is still in the tree of the branch after the commit.
C36_NoLostUpdate == []C36_ParentIsBase /\ [][C36_Step]_vars

----------------------------------------------------------------------------
\* The tree without what another client has committed to it
OwnTree(tree) == SelectSeq(tree, LAMBDA t : t.path # WriterPath)

\* C37: when commit() has rejected, that attempt has neither created nor
\* moved a branch ref: a target branch that did not exist when commit()
\* looked it up still does not exist, and one that existed still points to
\* the commit that was fetched from it (or to the commit another client put
\* on top of it).
C37_RejectLeavesRefs ==
    pc = "rejected" =>
       /\ cachedBaseBranch = StageBaseBranch => ~remote[StageBranch].exists
       /\ (cachedBaseBranch = StageBranch /\ latestCommit # NoCommit) =>
             /\ remote[StageBranch].exists
             /\ OwnTree(remote[StageBranch].tree) = latestCommit.tree

----------------------------------------------------------------------------
\* The requests that move a ref
RefUpdates ==
    { i \in 1..Len(requests) : requests[i].method = "PATCH" }

\* No step changes the base branch of the remote
C38_Step == remote'[StageBaseBranch] = remote[StageBaseBranch]

\* Every call and every request that creates or moves a ref names the
\* target branch
C38_Names ==
    /\ \A i \in CallsTo("createBranch") : calls[i].branch = StageBranch
    /\ \A i \in CallsTo("createCommit") : calls[i].branch = StageBranch
    /\ \A i \in RefCreations(requests) :
          requests[i].body.ref = << "refs", "heads", StageBranch >>
    /\ \A i \in RefUpdates :
          requests[i].url = << "git", "refs", "heads", StageBranch >>

\* C38: with a target branch other than the base branch, commit() never
\* writes to the base branch: the branch named in createBranch as the one to
\* create and in createCommit as the one to advance, and in the requests
\* they send, is the target branch, and no step changes the ref of the base
\* branch, whether commit() resolves with a commit, resolves without one or
\* rejects.
C38_BaseBranchUntouched ==
    /\ StageBranch # StageBaseBranch
    /\ [][C38_Step]_vars
    /\ []C38_Names

\* A commit that created the target branch from the base branch and
\* advanced it, the base branch being as it was fetched
C38_Witness ==
    /\ Committed
    /\ cachedBaseBranch = StageBaseBranch
    /\ RefCreations(requests) # {}
    /\ RefUpdates # {}
    /\ remote[StageBaseBranch].tree = latestCommit.tree
    /\ remote[StageBranch].tree # remote[StageBaseBranch].tree

----------------------------------------------------------------------------
\* commit() run again on the fetched base, as a dry run or as a real run:
\* what the applicators have at hand when the reduce starts
ReplayWorld(dryRun) ==
    [heap |-> BaseHeap(latestCommit.tree), calls |-> << >>,
     nextRef |-> existingChangesState.changeMap.ref + 1, dry |-> dryRun,
     cached |-> cachedBaseBranch, remote |-> remote, truncated |-> truncated,
     failAt |-> 0]

\* The reduce of commit() over the change sets i..k
RECURSIVE ReplayFrom(_, _, _)
ReplayFrom(i, k, acc) ==
    IF i > k \/ acc.err # ErrNone
    THEN acc
    ELSE LET changeResults == sequence(changeSets[i].changes, acc.changes, acc.w)
         IN IF changeResults.err # ErrNone
            THEN changeResults
            ELSE ReplayFrom(i + 1, k,
                            Result(changeResults.changes,
                                   acc.entries \o changeResults.entries,
                                   changeResults.w))

Replay(k, dryRun) ==
    ReplayFrom(1, k, Result(existingChangesState.changeMap, << >>,
                            ReplayWorld(dryRun)))

\* The calls of a run that are not writes
ReadCalls(calls_) == SelectSeq(calls_, LAMBDA c : c.fn # "createBlob")

\* C39: on the same remote and for the same staged session, the dry run and
\* the real run of commit() reach after every round the same snapshot (same
\* path, sha, mode and kind of every entry) and the same record list, which
\* are those of the running commit(); both find changes or both find none;
\* a round rejects in one exactly when it rejects in the other; the real run
\* makes the calls of the dry run and createBlob calls besides; and the
\* outcome of a dry run with changes carries the placeholder ref where the
\* real run carries the ref of the new commit.
C39_Rounds ==
    pc = "apply" =>
       LET real == Replay(next - 1, FALSE)
           dryRun == Replay(next - 1, TRUE)
       IN /\ real.err = ErrNone /\ dryRun.err = ErrNone
          /\ SnapshotOf(real.changes, real.w.heap) =
                SnapshotOf(dryRun.changes, dryRun.w.heap)
          /\ SnapshotOf(dryRun.changes, dryRun.w.heap) = FinalSnapshot
          /\ real.entries = dryRun.entries
          /\ dryRun.entries = changeState.entries
          /\ (real.changes.ref = existingChangesState.changeMap.ref)
                = (dryRun.changes.ref = existingChangesState.changeMap.ref)
          /\ ReadCalls(real.w.calls) = dryRun.w.calls
          /\ CallsTo("createBlob") # {} => ~dry

C39_Rejections ==
    (pc = "rejected" /\ existingChangesState # NoState
       /\ next <= Len(changeSets)) =>
       /\ Replay(next, FALSE).err = error
       /\ Replay(next, TRUE).err = error

C39_Outcome ==
    (Done /\ changeState.entries # << >>) =>
       /\ completion.changes = changeState.entries
       /\ completion.ref = IF dry THEN PlaceholderRef ELSE CreatedRef

C39_DryRunFaithful == C39_Rounds /\ C39_Rejections /\ C39_Outcome

\* A dry run has applied two change sets, among them one that stores a new
\* blob, and the real run of the same session calls createBlob
C39_Witness ==
    /\ pc = "apply" /\ dry
    /\ next = 3
    /\ Len(changeState.entries) >= 2
    /\ \E i \in 1..Len(changeState.entries) :
          changeState.entries[i].type \in {ChangeTypeAdd, ChangeTypeModify}
    /\ \E i \in 1..Len(Replay(2, FALSE).w.calls) :
          Replay(2, FALSE).w.calls[i].fn = "createBlob"
    /\ FinalSnapshot # BaseSnapshot

====
